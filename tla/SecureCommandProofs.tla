------------------------- MODULE SecureCommandProofs -------------------------
(***************************************************************************)
(* Proofs about SecureCommand, for any number of clients and of lost, late *)
(* and repeated messages.                                                  *)
(***************************************************************************)
EXTENDS SecureCommand, TLAPS

Get == "GET_SESSION_KEY"

\* Each client waits for its last request; what the network carries for a
\* client that has no key yet is about keys.
Matching ==
  /\ \A c \in Client :
       /\ client[c].waiting \in {0, client[c].sent}
       /\ client[c].stage = "key" => client[c].key = NoKey
       /\ client[c].stage # "key" => client[c].key # NoKey
       /\ client[c].stage # "done" => client[c].result = "none"
  /\ \A m \in net :
       LET c == client[m.client]
       IN  /\ m.id \in 1..c.sent
           /\ m.operation = Get \/ (m.operation = c.op /\ c.stage # "key")
           /\ m.id = c.waiting => (m.operation = Get <=> c.stage = "key")
           /\ m.type = "request" /\ m.operation # Get => m.key = c.key
           /\ m.type = "reply" /\ m.operation = Get => m.key # NoKey

\* A session key that a client has, or that is on its way to it.
Holder(c, k) ==
  \/ client[c].key = k
  \/ \E m \in net : m.type = "reply" /\ m.operation = Get /\ m.client = c /\ m.key = k

\* A session key belongs to one client.
OneHolder ==
  \A c, d \in Client : \A k \in 1..issued : Holder(c, k) /\ Holder(d, k) => c = d

\* Until the module restarts the last key made is the one in force.
LastKey ==
  /\ session_key \in {NoKey, issued}
  /\ restarts = 0 /\ resets = 0 => session_key = issued
  /\ resets = 0 => public_keys = StoredKeys

\* A client's change is accepted, and it knows or is being told.
Told(c) ==
  /\ client[c].op = "SET_REMOTEID_CONFIG"
  /\ \/ client[c].result = "ACCEPTED"
     \/ \E m \in net : /\ m.type = "reply" /\ m.operation # Get
                       /\ m.client = c /\ m.result = "ACCEPTED"

Kept(c) ==
  \A x \in Applied(client[c].change) :
    \/ params[x] = c
    \/ params[x] \in Client /\ client[params[x]].key > client[c].key

Accepted ==
  /\ \A x \in Parameters : params[x] \in Client => client[params[x]].stage # "key"
  /\ resets = 0 => \A c \in Client : Told(c) => Kept(c)

Superseded(c) == issued > client[c].key \/ restarts > 0 \/ resets > 0

Denied ==
  /\ DeniedWasSuperseded
  /\ \A m \in net :
       m.type = "reply" /\ m.result = "DENIED" /\ KeyOf[m.client] \in StoredKeys =>
         \/ m.operation # Get /\ Superseded(m.client)
         \/ restarts > 0 \/ resets > 0

IInv == TypeOK /\ Matching /\ OneHolder /\ LastKey /\ Accepted /\ Denied

(***************************************************************************)
(* Types.                                                                  *)
(***************************************************************************)
Message(n) == [type : {"request", "reply"}, client : Client, id : Nat,
               operation : Operations \cup {Get}, key : EmptyKey..n, result : Results]
ClientType(n) == [op : Operations, change : Seq(STRING), stage : {"key", "change", "done"},
                  key : EmptyKey..n, waiting : Nat, sent : Nat, result : Results]

LEMMA Types ==
  ASSUME TypeOK
  PROVE  /\ issued \in Nat /\ session_key \in 0..issued
         /\ net \subseteq Message(issued)
         /\ client \in [Client -> ClientType(issued)]
         /\ params \in [Parameters -> Client \cup {Default}]
         /\ public_keys \subseteq KeySlots
         /\ lost \in 0..MaxLost /\ late \in 0..MaxLate
         /\ restarts \in 0..MaxRestarts /\ resets \in 0..MaxResets
BY DEF TypeOK, Message, ClientType, Get

LEMMA TakeNet ==
  ASSUME TypeOK, NEW m, NEW replies, Take(m, replies)
  PROVE  net' \subseteq net \cup replies /\ late' \in 0..MaxLate
<1>1. late \in 0..MaxLate
  BY Types
<1> QED BY <1>1, BoundsAssumption DEF Take, BoundsAssumption

LEMMA ReplyFields ==
  ASSUME NEW n \in Nat, NEW m \in Message(n), NEW k, NEW r
  PROVE  LET a == Reply(m, k, r)
         IN  /\ a.type = "reply" /\ a.client = m.client /\ a.id = m.id
             /\ a.operation = m.operation /\ a.key = k /\ a.result = r
BY DEF Reply, Message

LEMMA ReplyType ==
  ASSUME NEW n \in Nat, NEW m \in Message(n), NEW k \in EmptyKey..n, NEW r \in Results
  PROVE  Reply(m, k, r) \in Message(n)
BY DEF Reply, Message

LEMMA MoreKeys ==
  ASSUME NEW n \in Nat
  PROVE  Message(n) \subseteq Message(n + 1) /\ ClientType(n) \subseteq ClientType(n + 1)
BY DEF Message, ClientType, EmptyKey

LEMMA ClientSends ==
  ASSUME NEW n \in Nat, NEW r \in ClientType(n), NEW id \in Nat
  PROVE  [r EXCEPT !.sent = id, !.waiting = id] \in ClientType(n)
BY DEF ClientType

LEMMA ClientWaits ==
  ASSUME NEW n \in Nat, NEW r \in ClientType(n)
  PROVE  [r EXCEPT !.waiting = 0] \in ClientType(n)
BY DEF ClientType

LEMMA ClientHasKey ==
  ASSUME NEW n \in Nat, NEW r \in ClientType(n), NEW k \in EmptyKey..n
  PROVE  [r EXCEPT !.stage = "change", !.key = k, !.waiting = 0] \in ClientType(n)
BY DEF ClientType

LEMMA ClientEnds ==
  ASSUME NEW n \in Nat, NEW r \in ClientType(n), NEW result \in Results
  PROVE  [r EXCEPT !.stage = "done", !.result = result, !.waiting = 0] \in ClientType(n)
BY DEF ClientType

\* What a client's own steps do to its record, and that they leave the others.
LEMMA SendClient ==
  ASSUME TypeOK, NEW c \in Client, Send(c)
  PROVE  LET id == client[c].sent + 1
         IN  client' = [client EXCEPT ![c] = [client[c] EXCEPT !.sent = id, !.waiting = id]]
BY Types DEF Send, ClientType

LEMMA TimeoutClient ==
  ASSUME TypeOK, NEW c \in Client, Timeout(c)
  PROVE  client' = [client EXCEPT ![c] = [client[c] EXCEPT !.waiting = 0]]
BY Types DEF Timeout, ClientType

LEMMA ReceiveClient ==
  ASSUME TypeOK, NEW m \in net, Receive(m)
  PROVE  LET c == m.client
         IN  IF m.id # client[c].waiting THEN client' = client
             ELSE IF client[c].stage = "key"
             THEN client' = [client EXCEPT ![c] =
                    [client[c] EXCEPT !.stage = "change", !.key = m.key, !.waiting = 0]]
             ELSE client' = [client EXCEPT ![c] =
                    [client[c] EXCEPT !.stage = "done", !.result = m.result, !.waiting = 0]]
<1>1. m.client \in Client /\ client \in [Client -> ClientType(issued)]
  BY Types DEF Message
<1>2. CASE m.id # client[m.client].waiting
  BY <1>2 DEF Receive
<1>3. CASE m.id = client[m.client].waiting /\ client[m.client].stage = "key"
  <2>1. client' = [client EXCEPT ![m.client].stage = "change", ![m.client].key = m.key,
                                 ![m.client].waiting = 0]
    BY <1>3, Zenon DEF Receive
  <2> QED BY <1>1, <1>3, <2>1 DEF ClientType
<1>4. CASE m.id = client[m.client].waiting /\ client[m.client].stage # "key"
  <2>1. client' = [client EXCEPT ![m.client].stage = "done", ![m.client].result = m.result,
                                 ![m.client].waiting = 0]
    BY <1>4, Zenon DEF Receive
  <2> QED BY <1>1, <1>4, <2>1 DEF ClientType
<1> QED BY <1>2, <1>3, <1>4

\* The name that is made for a key's parameter is never one in the table.
LEMMA NeverFound ==
  ASSUME NEW slot \in KeySlots
  PROVE  ~Found(slot)
<1>1. KeyName(slot)[2] = "x"
  BY DEF KeyName
<1>2. \A name \in KeyParameters : name[2] # "x"
  BY DEF KeyParameters, KeySlots, Digit
<1> QED BY <1>1, <1>2 DEF Found

LEMMA OutcomeType == \A change : Outcome(change) \in {"ACCEPTED", "FAILED"}
BY DEF Outcome

\* What the commands that manage the keys answer.
LEMMA KeyAnswers ==
  ASSUME NEW m, SetPublicKeys(m) \/ RemovePublicKeys(m)
  PROVE  \E r \in {"ACCEPTED", "FAILED"} : Take(m, {Reply(m, EmptyKey, r)})
<1>1. CASE SetPublicKeys(m)
  BY <1>1 DEF SetPublicKeys
<1>2. CASE RemovePublicKeys(m)
  BY <1>2 DEF RemovePublicKeys
<1> QED BY <1>1, <1>2

LEMMA InitTypes == Init => TypeOK
<1> SUFFICES ASSUME Init PROVE TypeOK
  OBVIOUS
<1>1. PICK op \in [Client -> Operations],
           change \in [Client -> UNION {Changes[c] : c \in Client}] :
        /\ \A c \in Client : op[c] \in Wishes[c] /\ change[c] \in Changes[c]
        /\ client = [c \in Client |->
                       [op |-> op[c], change |-> change[c], stage |-> "key", key |-> NoKey,
                        waiting |-> 0, sent |-> 0, result |-> "none"]]
  BY DEF Init
<1>2. \A c \in Client : change[c] \in Seq(STRING)
  BY <1>1, ClientsAssumption DEF ClientsAssumption
<1>3. client \in [Client -> ClientType(0)]
  BY <1>1, <1>2 DEF ClientType, NoKey, EmptyKey, Results
<1>4. /\ session_key = 0 /\ issued = 0 /\ net = {} /\ public_keys = StoredKeys
      /\ params = [x \in Parameters |-> Default]
      /\ lost = 0 /\ late = 0 /\ restarts = 0 /\ resets = 0
  BY DEF Init, NoKey
<1> QED BY <1>3, <1>4, ClientsAssumption, BoundsAssumption
        DEF TypeOK, ClientType, ClientsAssumption, BoundsAssumption

LEMMA NextTypes == TypeOK /\ [Next]_vars => TypeOK'
<1> SUFFICES ASSUME TypeOK, [Next]_vars PROVE TypeOK'
  OBVIOUS
<1> USE BoundsAssumption, ClientsAssumption DEF BoundsAssumption, ClientsAssumption
<1> DEFINE Module == /\ issued \in Nat /\ session_key \in 0..issued
                     /\ params \in [Parameters -> Client \cup {Default}]
                     /\ public_keys \subseteq KeySlots
                     /\ restarts \in 0..MaxRestarts /\ resets \in 0..MaxResets
           Link == /\ net \subseteq Message(issued)
                   /\ client \in [Client -> ClientType(issued)]
                   /\ lost \in 0..MaxLost /\ late \in 0..MaxLate
<1>0. Module /\ Link
  BY Types
<1>1. Module' /\ Link' => TypeOK'
  BY DEF TypeOK, Message, ClientType, Get
<1>2. ASSUME NEW m \in net, Deny(m)
      PROVE  TypeOK'
  <2>1. Reply(m, EmptyKey, "DENIED") \in Message(issued)
    BY <1>0, ReplyType DEF EmptyKey, Results
  <2>2. net' \subseteq Message(issued) /\ late' \in 0..MaxLate
    BY <1>0, <1>2, <2>1, TakeNet DEF Deny
  <2> QED BY <1>0, <1>1, <1>2, <2>2 DEF Deny, moduleVars
<1>3. ASSUME NEW m \in net, GetSessionKey(m)
      PROVE  TypeOK'
  <2>1. m \in Message(issued + 1) /\ issued + 1 \in Nat
    BY <1>0, MoreKeys
  <2>2. Reply(m, issued + 1, "ACCEPTED") \in Message(issued + 1)
    BY <1>0, <2>1, ReplyType DEF EmptyKey, Results
  <2>3. net' \subseteq Message(issued + 1) /\ late' \in 0..MaxLate
    <3>1. Take(m, {Reply(m, issued + 1, "ACCEPTED")})
      BY <1>3 DEF GetSessionKey, make_session_key
    <3>2. net' \subseteq net \cup {Reply(m, issued + 1, "ACCEPTED")} /\ late' \in 0..MaxLate
      BY ONLY TypeOK, <3>1, TakeNet
    <3>3. net \subseteq Message(issued + 1)
      <4>1. Message(issued) \subseteq Message(issued + 1)
        BY <1>0, MoreKeys
      <4> QED BY <1>0, <4>1
    <3> QED BY <2>2, <3>2, <3>3
  <2>4. client' \in [Client -> ClientType(issued + 1)]
    BY <1>0, <1>3, MoreKeys DEF GetSessionKey, make_session_key
  <2> QED BY <1>0, <1>1, <1>3, <2>3, <2>4 DEF GetSessionKey, make_session_key
<1>4. ASSUME NEW m \in net, SetConfig(m)
      PROVE  TypeOK'
  <2>1. Reply(m, EmptyKey, Outcome(ChangeOf(m))) \in Message(issued)
    BY <1>0, ReplyType, OutcomeType, SMTT(30) DEF EmptyKey, Results
  <2>2. net' \subseteq Message(issued) /\ late' \in 0..MaxLate
    BY <1>0, <1>4, <2>1, TakeNet DEF SetConfig
  <2>3. params' \in [Parameters -> Client \cup {Default}]
    BY <1>0, <1>4 DEF SetConfig, Message
  <2> QED BY <1>0, <1>1, <1>4, <2>2, <2>3 DEF SetConfig
<1>5. ASSUME NEW m \in net, SetConfigResets(m)
      PROVE  TypeOK'
  <2>1. net' \subseteq Message(issued) /\ late' \in 0..MaxLate
    BY <1>0, <1>5, TakeNet DEF SetConfigResets
  <2>2. params' \in [Parameters -> Client \cup {Default}]
    BY <1>5 DEF SetConfigResets
  <2>3. resets' \in 0..MaxResets
    BY <1>0, <1>5 DEF SetConfigResets
  <2> QED BY <1>0, <1>1, <1>5, <2>1, <2>2, <2>3 DEF SetConfigResets, NoKey
<1>6. ASSUME NEW m \in net, SetPublicKeys(m)
      PROVE  TypeOK'
  <2>1. PICK r \in Results :
          /\ public_keys' = public_keys
          /\ Take(m, {Reply(m, EmptyKey, r)})
    BY <1>6, NeverFound DEF SetPublicKeys, Results
  <2>2. Reply(m, EmptyKey, r) \in Message(issued)
    BY <1>0, ReplyType DEF EmptyKey
  <2>3. net' \subseteq Message(issued) /\ late' \in 0..MaxLate
    BY <1>0, <2>1, <2>2, TakeNet
  <2> QED BY <1>0, <1>1, <1>6, <2>1, <2>3 DEF SetPublicKeys
<1>7. ASSUME NEW m \in net, RemovePublicKeys(m)
      PROVE  TypeOK'
  <2>1. public_keys' = public_keys
    BY <1>7, NeverFound DEF RemovePublicKeys
  <2>2. Reply(m, EmptyKey, "ACCEPTED") \in Message(issued)
    BY <1>0, ReplyType DEF EmptyKey, Results
  <2>3. net' \subseteq Message(issued) /\ late' \in 0..MaxLate
    BY <1>0, <1>7, <2>2, TakeNet DEF RemovePublicKeys
  <2> QED BY <1>0, <1>1, <1>7, <2>1, <2>3 DEF RemovePublicKeys
<1>8. ASSUME NEW m \in net, Receive(m)
      PROVE  TypeOK'
  <2>1. m \in Message(issued)
    BY <1>0
  <2>2. m.client \in Client /\ m.key \in EmptyKey..issued /\ m.result \in Results
    BY <2>1 DEF Message
  <2>3. client' \in [Client -> ClientType(issued)]
    <3> DEFINE c == m.client
    <3>1. client[c] \in ClientType(issued)
      BY <1>0, <2>2
    <3>2. \A r \in ClientType(issued) :
            [client EXCEPT ![c] = r] \in [Client -> ClientType(issued)]
      BY <1>0
    <3>3. [client[c] EXCEPT !.stage = "change", !.key = m.key, !.waiting = 0]
            \in ClientType(issued)
      BY <1>0, <2>2, <3>1, ClientHasKey
    <3>4. [client[c] EXCEPT !.stage = "done", !.result = m.result, !.waiting = 0]
            \in ClientType(issued)
      BY <1>0, <2>2, <3>1, ClientEnds
    <3>5. \/ client' = client
          \/ client' = [client EXCEPT ![c] =
                [client[c] EXCEPT !.stage = "change", !.key = m.key, !.waiting = 0]]
          \/ client' = [client EXCEPT ![c] =
                [client[c] EXCEPT !.stage = "done", !.result = m.result, !.waiting = 0]]
      BY <1>8, ReceiveClient
    <3> HIDE DEF c
    <3> QED BY <1>0, <3>2, <3>3, <3>4, <3>5
  <2>4. net' \subseteq Message(issued)
    BY <1>0, <1>8 DEF Receive
  <2> QED BY <1>0, <1>1, <1>8, <2>3, <2>4 DEF Receive, moduleVars
<1>9. ASSUME NEW m \in net, Lose(m)
      PROVE  TypeOK'
  <2>1. net' \subseteq Message(issued) /\ lost' \in 0..MaxLost
    BY <1>0, <1>9 DEF Lose
  <2> QED BY <1>0, <1>1, <1>9, <2>1 DEF Lose, moduleVars
<1>10. ASSUME NEW c \in Client, Send(c)
       PROVE  TypeOK'
  <2>1. client[c] \in ClientType(issued)
    BY <1>0
  <2>2. /\ client[c].sent + 1 \in Nat /\ client[c].key \in EmptyKey..issued
        /\ client[c].op \in Operations
    BY <2>1 DEF ClientType
  <2>3. \A op \in Operations \cup {Get} :
          Request(c, client[c].sent + 1, op, client[c].key) \in Message(issued)
    BY <2>2 DEF Request, Message, Results
  <2>4. net' \subseteq Message(issued)
    BY <1>0, <1>10, <2>2, <2>3 DEF Send, Get
  <2>5. client' \in [Client -> ClientType(issued)]
    <3> DEFINE r == [client[c] EXCEPT !.sent = client[c].sent + 1,
                                      !.waiting = client[c].sent + 1]
    <3>1. r \in ClientType(issued)
      BY <1>0, <2>1, <2>2, ClientSends
    <3>2. client' = [client EXCEPT ![c] = r]
      BY <1>10, SendClient
    <3> HIDE DEF r
    <3> QED BY <1>0, <3>1, <3>2
  <2> QED BY <1>0, <1>1, <1>10, <2>4, <2>5 DEF Send, moduleVars
<1>11. ASSUME NEW c \in Client, Timeout(c)
       PROVE  TypeOK'
  <2>1. client' \in [Client -> ClientType(issued)]
    BY <1>0, <1>11, TimeoutClient, ClientWaits
  <2>2. late' \in 0..MaxLate
    BY <1>0, <1>11 DEF Timeout
  <2> QED BY <1>0, <1>1, <1>11, <2>1, <2>2 DEF Timeout, moduleVars
<1>12. CASE Restart
  <2>1. restarts' \in 0..MaxRestarts
    BY <1>0, <1>12 DEF Restart
  <2> QED BY <1>0, <1>1, <1>12, <2>1 DEF Restart, NoKey
<1>13. CASE UNCHANGED vars
  BY <1>0, <1>1, <1>13 DEF vars
<1> QED
  BY <1>2, <1>3, <1>4, <1>5, <1>6, <1>7, <1>8, <1>9, <1>10, <1>11, <1>12, <1>13
     DEF Next, Handle

\* The module, the network and the clients keep their types for any number of
\* clients and of messages lost, late and repeated.
THEOREM TypeCorrect == Spec => []TypeOK
BY InitTypes, NextTypes, PTL DEF Spec

(***************************************************************************)
(* What the steps do to the network and to the clients.                    *)
(***************************************************************************)
\* A step of the module: it answers m, with a, or not at all.
Answers(m, a) ==
  /\ m \in net /\ m.type = "request"
  /\ UNCHANGED client
  /\ net' \subseteq net \cup {a}
  /\ a.type = "reply" /\ a.client = m.client /\ a.id = m.id /\ a.operation = m.operation
  /\ a.key # NoKey

\* A step of a client: it keeps what it is after and, once it has one, its key.
Onwards ==
  \A c \in Client :
    /\ client'[c].op = client[c].op /\ client'[c].change = client[c].change
    /\ client[c].stage # "key" => /\ client'[c].stage # "key"
                                  /\ client'[c].key = client[c].key

LEMMA Replies ==
  ASSUME TypeOK, NEW m \in net, m.type = "request", NEW k, k # NoKey, NEW r,
         Take(m, {Reply(m, k, r)}), UNCHANGED client
  PROVE  Answers(m, Reply(m, k, r)) /\ Reply(m, k, r).key = k /\ Reply(m, k, r).result = r
<1>1. m \in Message(issued) /\ issued \in Nat
  BY Types
<1> QED BY <1>1, TakeNet, ReplyFields DEF Answers

LEMMA ClientSteps ==
  ASSUME TypeOK,
         \/ \E c \in Client : Send(c) \/ Timeout(c)
         \/ \E m \in net : Receive(m)
  PROVE  Onwards /\ UNCHANGED moduleVars
<1>0. client \in [Client -> ClientType(issued)]
  BY Types
<1>1. ASSUME NEW c \in Client, Send(c)
      PROVE  Onwards /\ UNCHANGED moduleVars
  <2>1. client' = [client EXCEPT ![c] = [client[c] EXCEPT !.sent = client[c].sent + 1,
                                                           !.waiting = client[c].sent + 1]]
    BY <1>1, SendClient
  <2>2. Onwards
    BY <1>0, <2>1 DEF Onwards, ClientType
  <2> QED BY <1>1, <2>2 DEF Send
<1>2. ASSUME NEW c \in Client, Timeout(c)
      PROVE  Onwards /\ UNCHANGED moduleVars
  BY <1>0, <1>2, TimeoutClient DEF Onwards, ClientType, Timeout
<1>3. ASSUME NEW m \in net, Receive(m)
      PROVE  Onwards /\ UNCHANGED moduleVars
  <2>1. m.client \in Client
    BY Types DEF Message
  <2>2. \/ client' = client
        \/ /\ client[m.client].stage = "key"
           /\ client' = [client EXCEPT ![m.client] = [client[m.client] EXCEPT
                            !.stage = "change", !.key = m.key, !.waiting = 0]]
        \/ client' = [client EXCEPT ![m.client] = [client[m.client] EXCEPT
                         !.stage = "done", !.result = m.result, !.waiting = 0]]
    BY <1>3, ReceiveClient
  <2>3. Onwards
    <3> DEFINE c == m.client
    <3>1. c \in Client /\ client[c] \in ClientType(issued)
      BY <1>0, <2>1
    <3>2. CASE client' = client
      BY <3>2 DEF Onwards
    <3>3. CASE /\ client[c].stage = "key"
               /\ client' = [client EXCEPT ![c] = [client[c] EXCEPT
                               !.stage = "change", !.key = m.key, !.waiting = 0]]
      <4> HIDE DEF c
      <4> QED BY <1>0, <3>1, <3>3 DEF Onwards, ClientType
    <3>4. CASE client' = [client EXCEPT ![c] = [client[c] EXCEPT
                            !.stage = "done", !.result = m.result, !.waiting = 0]]
      <4> HIDE DEF c
      <4> QED BY <1>0, <3>1, <3>4 DEF Onwards, ClientType
    <3> QED BY <2>2, <3>2, <3>3, <3>4
  <2> QED BY <1>3, <2>3 DEF Receive
<1> QED BY <1>1, <1>2, <1>3

(***************************************************************************)
(* Matching.                                                               *)
(***************************************************************************)
LEMMA MatchingAnswers ==
  ASSUME Matching, NEW m, NEW a, Answers(m, a)
  PROVE  Matching'
<1>1. /\ m \in net /\ m.type = "request" /\ client' = client
      /\ net' \subseteq net \cup {a}
      /\ a.type = "reply" /\ a.client = m.client /\ a.id = m.id
      /\ a.operation = m.operation /\ a.key # NoKey
  BY DEF Answers
<1> QED BY <1>1 DEF Matching

LEMMA MatchingFewer ==
  ASSUME Matching, net' \subseteq net, UNCHANGED client
  PROVE  Matching'
BY DEF Matching

LEMMA MatchingSend ==
  ASSUME TypeOK, Matching, NEW c \in Client, Send(c)
  PROVE  Matching'
<1> DEFINE id == client[c].sent + 1
           op == IF client[c].stage = "key" THEN Get ELSE client[c].op
           n == Request(c, id, op, client[c].key)
<1>1. client \in [Client -> ClientType(issued)] /\ net \subseteq Message(issued)
  BY Types
<1>2. client' = [client EXCEPT ![c] = [client[c] EXCEPT !.sent = id, !.waiting = id]]
  BY SendClient
<1>3. client[c].sent \in Nat /\ client[c].waiting = 0
  BY <1>1 DEF ClientType, Send
<1>4. /\ client'[c].sent = id /\ client'[c].waiting = id
      /\ client'[c].stage = client[c].stage /\ client'[c].key = client[c].key
      /\ client'[c].op = client[c].op /\ client'[c].result = client[c].result
      /\ \A d \in Client : d # c => client'[d] = client[d]
  BY <1>1, <1>2 DEF ClientType
<1>5. /\ n.type = "request" /\ n.client = c /\ n.id = id /\ n.operation = op
      /\ n.key = client[c].key
  BY DEF Request
<1>6. net' = net \cup {n}
  BY DEF Send, Get
<1>7. client[c].op # Get
  BY <1>1 DEF ClientType, Operations, Get
<1>8. \A m \in net : m.client \in Client /\ m.id \in Nat
  BY <1>1 DEF Message
<1> HIDE DEF n
<1>9. \A d \in Client :
        /\ client'[d].waiting \in {0, client'[d].sent}
        /\ client'[d].stage = "key" => client'[d].key = NoKey
        /\ client'[d].stage # "key" => client'[d].key # NoKey
        /\ client'[d].stage # "done" => client'[d].result = "none"
  BY <1>4 DEF Matching
<1>10. ASSUME NEW m \in net
       PROVE  /\ m.id \in 1..client'[m.client].sent
              /\ m.operation = Get \/ /\ m.operation = client'[m.client].op
                                      /\ client'[m.client].stage # "key"
              /\ m.id = client'[m.client].waiting =>
                   (m.operation = Get <=> client'[m.client].stage = "key")
              /\ m.type = "request" /\ m.operation # Get => m.key = client'[m.client].key
              /\ m.type = "reply" /\ m.operation = Get => m.key # NoKey
  <2>1. CASE m.client = c
    BY <1>3, <1>4, <2>1 DEF Matching
  <2>2. CASE m.client # c
    BY <1>4, <1>8, <2>2 DEF Matching
  <2> QED BY <2>1, <2>2
<1>11. /\ n.id \in 1..client'[n.client].sent
       /\ n.operation = Get \/ /\ n.operation = client'[n.client].op
                               /\ client'[n.client].stage # "key"
       /\ n.operation = Get <=> client'[n.client].stage = "key"
       /\ n.key = client'[n.client].key
       /\ n.type = "request"
  BY <1>3, <1>4, <1>5, <1>7
<1> QED BY <1>6, <1>9, <1>10, <1>11 DEF Matching

LEMMA MatchingTimeout ==
  ASSUME TypeOK, Matching, NEW c \in Client, Timeout(c)
  PROVE  Matching'
<1>1. client \in [Client -> ClientType(issued)] /\ net \subseteq Message(issued)
  BY Types
<1>2. /\ client'[c].waiting = 0 /\ client'[c].sent = client[c].sent
      /\ client'[c].stage = client[c].stage /\ client'[c].key = client[c].key
      /\ client'[c].op = client[c].op /\ client'[c].result = client[c].result
      /\ \A d \in Client : d # c => client'[d] = client[d]
  BY <1>1, TimeoutClient DEF ClientType
<1>3. net' = net
  BY DEF Timeout
<1>4. \A m \in net : m.client \in Client /\ m.id \in Nat
  BY <1>1 DEF Message
<1> QED BY <1>2, <1>3, <1>4 DEF Matching

LEMMA MatchingReceive ==
  ASSUME TypeOK, Matching, NEW m \in net, Receive(m)
  PROVE  Matching'
<1> DEFINE c == m.client
<1>1. client \in [Client -> ClientType(issued)] /\ net \subseteq Message(issued)
  BY Types
<1>2. m.type = "reply" /\ net' \subseteq net /\ c \in Client
  BY <1>1 DEF Receive, Message
<1>3. \A n \in net : n.client \in Client /\ n.id \in Nat
  BY <1>1 DEF Message
<1>4. CASE m.id # client[c].waiting
  BY <1>2, <1>4, ReceiveClient, MatchingFewer
<1>5. CASE m.id = client[c].waiting /\ client[c].stage = "key"
  <2>1. /\ client'[c].waiting = 0 /\ client'[c].sent = client[c].sent
        /\ client'[c].stage = "change" /\ client'[c].key = m.key
        /\ client'[c].op = client[c].op /\ client'[c].result = client[c].result
        /\ \A d \in Client : d # c => client'[d] = client[d]
    <3>1. client' = [client EXCEPT ![c] =
                       [client[c] EXCEPT !.stage = "change", !.key = m.key, !.waiting = 0]]
      BY <1>5, ReceiveClient
    <3>2. client[c] \in ClientType(issued)
      BY <1>1, <1>2
    <3> HIDE DEF c
    <3> QED BY <1>1, <1>2, <3>1, <3>2 DEF ClientType
  <2>2. m.key # NoKey
    BY <1>2, <1>5 DEF Matching
  <2>3. \A n \in net : n.client = c => n.operation = Get
    BY <1>5 DEF Matching
  <2> QED BY <1>2, <1>3, <1>5, <2>1, <2>2, <2>3 DEF Matching
<1>6. CASE m.id = client[c].waiting /\ client[c].stage # "key"
  <2>1. /\ client'[c].waiting = 0 /\ client'[c].sent = client[c].sent
        /\ client'[c].stage = "done" /\ client'[c].key = client[c].key
        /\ client'[c].op = client[c].op
        /\ \A d \in Client : d # c => client'[d] = client[d]
    <3>1. client' = [client EXCEPT ![c] =
                       [client[c] EXCEPT !.stage = "done", !.result = m.result, !.waiting = 0]]
      BY <1>6, ReceiveClient
    <3>2. client[c] \in ClientType(issued)
      BY <1>1, <1>2
    <3> HIDE DEF c
    <3> QED BY <1>1, <1>2, <3>1, <3>2 DEF ClientType
  <2> QED BY <1>2, <1>3, <1>6, <2>1 DEF Matching
<1> QED BY <1>4, <1>5, <1>6

LEMMA MatchingNext ==
  ASSUME TypeOK, Matching, [Next]_vars
  PROVE  Matching'
<1>1. ASSUME NEW m \in net, m.type = "request", NEW k, k # NoKey, NEW r,
             Take(m, {Reply(m, k, r)}), UNCHANGED client
      PROVE  Matching'
  BY <1>1, Replies, MatchingAnswers
<1>2. ASSUME NEW m \in net, m.type = "request",
             Deny(m) \/ SetConfig(m) \/ SetPublicKeys(m) \/ RemovePublicKeys(m)
      PROVE  Matching'
  <2>1. CASE Deny(m) \/ SetConfig(m)
    BY <1>1, <1>2, <2>1 DEF Deny, SetConfig, EmptyKey, NoKey
  <2>2. CASE SetPublicKeys(m) \/ RemovePublicKeys(m)
    <3>1. UNCHANGED client
      BY <2>2 DEF SetPublicKeys, RemovePublicKeys
    <3>2. PICK r : Take(m, {Reply(m, EmptyKey, r)})
      BY <2>2, KeyAnswers
    <3> QED BY <1>1, <1>2, <3>1, <3>2 DEF EmptyKey, NoKey
  <2> QED BY <1>2, <2>1, <2>2
<1>3. ASSUME NEW m \in net, m.type = "request", GetSessionKey(m)
      PROVE  Matching'
  <2>1. issued + 1 # NoKey
    BY Types DEF NoKey
  <2> QED BY <1>1, <1>3, <2>1 DEF GetSessionKey, make_session_key
<1>4. ASSUME NEW m \in net, SetConfigResets(m) \/ Lose(m)
      PROVE  Matching'
  BY <1>4, TakeNet, MatchingFewer DEF SetConfigResets, Lose
<1>5. CASE Restart \/ UNCHANGED vars
  BY <1>5, MatchingFewer DEF Restart, vars
<1> QED
  BY <1>2, <1>3, <1>4, <1>5, MatchingSend, MatchingTimeout, MatchingReceive DEF Next, Handle

(***************************************************************************)
(* Session keys.                                                           *)
(***************************************************************************)
LEMMA SameHolders ==
  ASSUME TypeOK, OneHolder, issued' = issued,
         \A c \in Client : \A k \in 1..issued : Holder(c, k)' => Holder(c, k)
  PROVE  OneHolder'
BY Types DEF OneHolder

LEMMA HolderAnswers ==
  ASSUME NEW m, NEW a, Answers(m, a)
  PROVE  \A c \in Client : \A k : Holder(c, k)' => 
           \/ Holder(c, k)
           \/ k = a.key /\ a.operation = Get /\ c = a.client
BY DEF Answers, Holder

LEMMA HolderKnown ==
  ASSUME TypeOK, NEW c \in Client, NEW k, Holder(c, k)
  PROVE  k <= issued
<1>1. \A m \in net : m.key \in EmptyKey..issued
  BY Types DEF Message
<1>2. client[c].key \in EmptyKey..issued
  BY Types DEF ClientType
<1> QED BY <1>1, <1>2, Types DEF Holder, EmptyKey

LEMMA OneHolderNext ==
  ASSUME TypeOK, Matching, OneHolder, [Next]_vars
  PROVE  OneHolder'
<1>0. issued \in Nat /\ client \in [Client -> ClientType(issued)] /\ net \subseteq Message(issued)
  BY Types
<1>1. ASSUME NEW m \in net, m.type = "request", UNCHANGED issued, UNCHANGED client,
             NEW r, Take(m, {Reply(m, EmptyKey, r)})
      PROVE  OneHolder'
  <2>1. Answers(m, Reply(m, EmptyKey, r)) /\ Reply(m, EmptyKey, r).key = EmptyKey
    BY <1>1, Replies DEF EmptyKey, NoKey
  <2>2. \A c \in Client : \A k \in 1..issued : Holder(c, k)' => Holder(c, k)
    BY <2>1, HolderAnswers DEF EmptyKey
  <2> QED BY <1>1, <2>2, SameHolders
<1>2. ASSUME NEW m \in net, m.type = "request", GetSessionKey(m)
      PROVE  OneHolder'
  <2> DEFINE a == Reply(m, issued + 1, "ACCEPTED")
  <2>1. issued + 1 # NoKey /\ issued' = issued + 1
    BY <1>0, <1>2 DEF NoKey, GetSessionKey, make_session_key
  <2>2. Answers(m, a) /\ a.key = issued + 1
    BY <1>2, <2>1, Replies DEF GetSessionKey, make_session_key
  <2>3. \A c \in Client : \A k \in 1..issued' :
          Holder(c, k)' => \/ Holder(c, k) /\ k \in 1..issued
                           \/ k = issued + 1 /\ c = m.client
    <3>1. \A c \in Client : \A k : Holder(c, k)' =>
            \/ Holder(c, k)
            \/ k = a.key /\ a.operation = Get /\ c = a.client
      BY <2>2, HolderAnswers
    <3>2. a.client = m.client
      BY <2>2 DEF Answers
    <3> QED BY <1>0, <2>1, <2>2, <3>1, <3>2, HolderKnown
  <2>4. \A c \in Client : \A k : Holder(c, k) => k # issued + 1
    BY <1>0, HolderKnown
  <2> QED BY <1>0, <2>1, <2>3, <2>4 DEF OneHolder
<1>3. ASSUME net' \subseteq net, UNCHANGED <<client, issued>>
      PROVE  OneHolder'
  <2>1. \A c \in Client : \A k : Holder(c, k)' => Holder(c, k)
    BY <1>3 DEF Holder
  <2> QED BY <1>3, <2>1, SameHolders
<1>4. ASSUME NEW m \in net, SetConfigResets(m)
      PROVE  OneHolder'
  BY <1>3, <1>4, TakeNet DEF SetConfigResets
<1>5. ASSUME NEW m \in net, SetPublicKeys(m) \/ RemovePublicKeys(m) \/ SetConfig(m) \/ Deny(m),
             m.type = "request"
      PROVE  OneHolder'
  BY <1>1, <1>5 DEF SetPublicKeys, RemovePublicKeys, SetConfig, Deny, moduleVars
<1>6. ASSUME NEW m \in net, Receive(m)
      PROVE  OneHolder'
  <2> DEFINE c == m.client
  <2>1. UNCHANGED issued /\ net' \subseteq net /\ m.type = "reply" /\ c \in Client
    BY <1>0, <1>6 DEF Receive, moduleVars, Message
  <2>2. \A d \in Client : \/ client'[d].key = client[d].key
                          \/ d = c /\ client'[d].key = m.key /\ m.operation = Get
    <3>1. CASE m.id = client[c].waiting /\ client[c].stage = "key"
      <4>1. client' = [client EXCEPT ![c] =
                         [client[c] EXCEPT !.stage = "change", !.key = m.key, !.waiting = 0]]
        BY <1>6, <3>1, ReceiveClient
      <4>2. m.operation = Get
        BY <3>1 DEF Matching
      <4>3. client[c] \in ClientType(issued)
        BY <1>0, <2>1
      <4> HIDE DEF c
      <4> QED BY <1>0, <2>1, <4>1, <4>2, <4>3 DEF ClientType
    <3>2. CASE ~(m.id = client[c].waiting /\ client[c].stage = "key")
      <4>1. \/ client' = client
            \/ client' = [client EXCEPT ![c] =
                 [client[c] EXCEPT !.stage = "done", !.result = m.result, !.waiting = 0]]
        BY <1>6, <3>2, ReceiveClient
      <4>2. client[c] \in ClientType(issued)
        BY <1>0, <2>1
      <4> HIDE DEF c
      <4>3. CASE client' = client
        BY <4>3
      <4>4. CASE client' = [client EXCEPT ![c] =
                 [client[c] EXCEPT !.stage = "done", !.result = m.result, !.waiting = 0]]
        BY <1>0, <2>1, <4>4, <4>2 DEF ClientType
      <4> QED BY <4>1, <4>3, <4>4
    <3> QED BY <3>1, <3>2
  <2>3. \A d \in Client : \A k : Holder(d, k)' => Holder(d, k)
    BY <2>1, <2>2 DEF Holder
  <2> QED BY <2>1, <2>3, SameHolders
<1>7. ASSUME NEW m \in net, Lose(m)
      PROVE  OneHolder'
  BY <1>3, <1>7 DEF Lose, moduleVars
<1>8. ASSUME NEW c \in Client, Send(c) \/ Timeout(c)
      PROVE  OneHolder'
  <2>1. \A d \in Client : client'[d].key = client[d].key
    <3>1. CASE Send(c)
      <4>1. client' = [client EXCEPT ![c] = [client[c] EXCEPT !.sent = client[c].sent + 1,
                                                               !.waiting = client[c].sent + 1]]
        BY <3>1, SendClient
      <4> QED BY <1>0, <4>1 DEF ClientType
    <3>2. CASE Timeout(c)
      <4>1. client' = [client EXCEPT ![c] = [client[c] EXCEPT !.waiting = 0]]
        BY <3>2, TimeoutClient
      <4> QED BY <1>0, <4>1 DEF ClientType
    <3> QED BY <1>8, <3>1, <3>2
  <2>2. \A n \in net' : n \in net \/ n.type = "request"
    BY <1>8 DEF Send, Timeout, Request
  <2>3. \A d \in Client : \A k : Holder(d, k)' => Holder(d, k)
    BY <2>1, <2>2 DEF Holder
  <2>4. UNCHANGED issued
    BY <1>8 DEF Send, Timeout, moduleVars
  <2> QED BY <2>3, <2>4, SameHolders
<1>9. CASE Restart \/ UNCHANGED vars
  BY <1>3, <1>9 DEF Restart, vars
<1> QED
  BY <1>2, <1>4, <1>5, <1>6, <1>7, <1>8, <1>9 DEF Next, Handle

LEMMA LastKeyNext ==
  ASSUME TypeOK, LastKey, [Next]_vars
  PROVE  LastKey'
<1>0. /\ restarts \in Nat /\ resets \in Nat
  BY Types
<1> USE DEF LastKey, moduleVars
<1>1. ASSUME NEW m \in net, SetPublicKeys(m) \/ RemovePublicKeys(m)
      PROVE  LastKey'
  <2>1. public_keys' = public_keys /\ UNCHANGED <<session_key, issued, restarts, resets>>
    BY <1>1, NeverFound DEF SetPublicKeys, RemovePublicKeys
  <2> QED BY <2>1
<1>2. ASSUME NEW m \in net, GetSessionKey(m) \/ SetConfig(m) \/ Deny(m)
      PROVE  LastKey'
  BY <1>2 DEF GetSessionKey, make_session_key, SetConfig, Deny
<1>3. ASSUME NEW m \in net, SetConfigResets(m)
      PROVE  LastKey'
  BY <1>0, <1>3 DEF SetConfigResets
<1>4. ASSUME NEW m \in net, Receive(m) \/ Lose(m)
      PROVE  LastKey'
  BY <1>4 DEF Receive, Lose
<1>5. ASSUME NEW c \in Client, Send(c) \/ Timeout(c)
      PROVE  LastKey'
  BY <1>5 DEF Send, Timeout
<1>6. CASE Restart
  BY <1>0, <1>6 DEF Restart
<1>7. CASE UNCHANGED vars
  BY <1>7 DEF vars
<1> QED BY <1>1, <1>2, <1>3, <1>4, <1>5, <1>6, <1>7 DEF Next, Handle

(***************************************************************************)
(* Accepted changes.                                                       *)
(***************************************************************************)
AcceptedInv == TypeOK /\ Matching /\ OneHolder /\ LastKey /\ Accepted

\* As long as the parameters stay, who was told stays the same and the clients
\* only go on, accepted changes are kept.
LEMMA AcceptedQuiet ==
  ASSUME AcceptedInv, Onwards, UNCHANGED <<params, resets>>,
         \A c \in Client : Told(c)' => Told(c)
  PROVE  Accepted'
<1>0. params \in [Parameters -> Client \cup {Default}]
  BY Types DEF AcceptedInv
<1>1. \A x \in Parameters : params[x] \in Client =>
        client[params[x]].stage # "key" /\ client'[params[x]].key = client[params[x]].key
                                        /\ client'[params[x]].stage # "key"
  BY DEF AcceptedInv, Accepted, Onwards
<1>2. ASSUME NEW c \in Client, Told(c)', resets = 0
      PROVE  Kept(c)'
  <2>1. Told(c) /\ Kept(c)
    BY <1>2 DEF AcceptedInv, Accepted
  <2>2. client[c].stage # "key"
    BY <2>1 DEF AcceptedInv, Matching, Told
  <2>3. client'[c].key = client[c].key /\ client'[c].change = client[c].change
    BY <2>2 DEF Onwards
  <2>4. Applied(client[c].change) \subseteq Parameters
    BY DEF Applied
  <2> QED BY <1>1, <2>1, <2>3, <2>4 DEF Kept
<1> QED BY <1>1, <1>2 DEF Accepted

LEMMA AcceptedAnswers ==
  ASSUME AcceptedInv, NEW m, NEW a, Answers(m, a), UNCHANGED <<params, resets>>,
         \/ a.operation = Get \/ a.result # "ACCEPTED"
         \/ a.operation # "SET_REMOTEID_CONFIG"
  PROVE  Accepted'
<1>1. Onwards
  BY DEF Answers, Onwards
<1>2. a.operation # Get => a.operation = client[a.client].op
  BY DEF Answers, AcceptedInv, Matching
<1>3. \A c \in Client : Told(c)' => Told(c)
  BY <1>2 DEF Answers, Told
<1> QED BY <1>1, <1>3, AcceptedQuiet

\* The change that is made last bears the key in force, which nobody else has.
LEMMA AcceptedSetConfig ==
  ASSUME AcceptedInv, NEW m \in net, m.type = "request", SetConfig(m)
  PROVE  Accepted'
<1> DEFINE d == m.client
           a == Reply(m, EmptyKey, Outcome(ChangeOf(m)))
<1>0. /\ issued \in Nat /\ client \in [Client -> ClientType(issued)] /\ d \in Client
      /\ params \in [Parameters -> Client \cup {Default}]
  BY Types DEF AcceptedInv, Message
<1>1. Answers(m, a)
  BY Replies DEF SetConfig, AcceptedInv, EmptyKey, NoKey
<1>2. m.operation # Get /\ m.operation = "SET_REMOTEID_CONFIG"
  BY DEF SetConfig, Get
<1>3. client[d].stage # "key" /\ client[d].key = m.key /\ m.key # NoKey
  BY <1>0, <1>2 DEF AcceptedInv, Matching
<1>4. /\ client' = client /\ resets' = resets
      /\ \A x \in Parameters :
           params'[x] = IF x \in Applied(client[d].change) THEN d ELSE params[x]
  BY DEF SetConfig, ChangeOf
<1>5. ASSUME resets = 0, NEW c \in Client, c # d
      PROVE  client[d].key > client[c].key
  <2>1. public_keys # {}
    BY <1>5, ClientsAssumption DEF AcceptedInv, LastKey, ClientsAssumption
  <2>2. m.key = session_key
    BY <1>2, <2>1 DEF SetConfig, CheckSignature, no_public_keys, Get
  <2>3. client[d].key = issued /\ issued \in 1..issued
    BY <1>0, <1>3, <2>2 DEF AcceptedInv, LastKey, NoKey
  <2>4. client[c].key # issued
    BY <1>0, <1>5, <2>3 DEF AcceptedInv, OneHolder, Holder
  <2>5. client[c].key \in EmptyKey..issued
    BY <1>0 DEF ClientType
  <2> QED BY <1>0, <2>3, <2>4, <2>5 DEF EmptyKey
<1> HIDE DEF a
<1>6. ASSUME resets = 0, NEW c \in Client, Told(c)'
      PROVE  Kept(c)'
  <2>0. \A x \in Applied(client[c].change) : x \in Parameters
    BY DEF Applied
  <2>1. CASE c = d
    BY <1>4, <2>0, <2>1 DEF Kept
  <2>2. CASE c # d
    <3>1. Told(c)
      BY <1>1, <1>6, <2>2 DEF Told, Answers
    <3>2. Kept(c)
      BY <1>6, <3>1 DEF AcceptedInv, Accepted
    <3>3. client[d].key > client[c].key
      BY <1>5, <1>6, <2>2
    <3> QED BY <1>0, <1>4, <2>0, <3>2, <3>3 DEF Kept
  <2> QED BY <2>1, <2>2
<1>7. \A x \in Parameters : params'[x] \in Client => client'[params'[x]].stage # "key"
  BY <1>3, <1>4 DEF AcceptedInv, Accepted
<1> QED BY <1>4, <1>6, <1>7 DEF Accepted

LEMMA ClientResults ==
  ASSUME TypeOK, NEW c \in Client, Send(c) \/ Timeout(c)
  PROVE  \A d \in Client : client'[d].result = client[d].result
<1>0. client \in [Client -> ClientType(issued)]
  BY Types
<1>1. CASE Send(c)
  <2>1. client' = [client EXCEPT ![c] = [client[c] EXCEPT !.sent = client[c].sent + 1,
                                                           !.waiting = client[c].sent + 1]]
    BY <1>1, SendClient
  <2> QED BY <1>0, <2>1 DEF ClientType
<1>2. CASE Timeout(c)
  BY <1>0, <1>2, TimeoutClient, SMTT(30) DEF ClientType
<1> QED BY <1>1, <1>2

LEMMA ReceivedResult ==
  ASSUME TypeOK, Matching, NEW m \in net, Receive(m)
  PROVE  \A d \in Client :
           \/ client'[d].result = client[d].result
           \/ d = m.client /\ client'[d].result = m.result /\ m.operation # Get
<1> DEFINE c == m.client
<1>0. client \in [Client -> ClientType(issued)] /\ c \in Client
  BY Types DEF Message
<1>1. client[c] \in ClientType(issued)
  BY <1>0
<1>2. CASE m.id = client[c].waiting /\ client[c].stage # "key"
  <2>1. client' = [client EXCEPT ![c] =
             [client[c] EXCEPT !.stage = "done", !.result = m.result, !.waiting = 0]]
    BY <1>2, ReceiveClient
  <2>2. m.operation # Get
    BY <1>2 DEF Matching
  <2> HIDE DEF c
  <2>3. \A d \in Client : \/ client'[d].result = client[d].result
                          \/ d = c /\ client'[d].result = m.result /\ m.operation # Get
    BY <1>0, <1>1, <2>1, <2>2 DEF ClientType
  <2> QED BY <2>3 DEF c
<1>3. CASE ~(m.id = client[c].waiting /\ client[c].stage # "key")
  <2>1. \/ client' = client
        \/ client' = [client EXCEPT ![c] =
             [client[c] EXCEPT !.stage = "change", !.key = m.key, !.waiting = 0]]
    BY <1>3, ReceiveClient
  <2> HIDE DEF c
  <2>2. CASE client' = client
    BY <2>2
  <2>3. CASE client' = [client EXCEPT ![c] =
             [client[c] EXCEPT !.stage = "change", !.key = m.key, !.waiting = 0]]
    BY <1>0, <1>1, <2>3 DEF ClientType
  <2> QED BY <2>1, <2>2, <2>3
<1> QED BY <1>2, <1>3

LEMMA AcceptedClients ==
  ASSUME AcceptedInv,
         \/ \E c \in Client : Send(c) \/ Timeout(c)
         \/ \E m \in net : Receive(m)
  PROVE  Accepted'
<1>0. TypeOK
  BY DEF AcceptedInv
<1>1. Onwards /\ UNCHANGED moduleVars
  BY <1>0, ClientSteps
<1>2. ASSUME NEW c \in Client, Send(c) \/ Timeout(c)
      PROVE  \A d \in Client : Told(d)' => Told(d)
  <2>1. \A d \in Client : client'[d].result = client[d].result
    BY <1>0, <1>2, ClientResults
  <2>2. \A n \in net' : n \in net \/ n.type = "request"
    BY <1>2 DEF Send, Timeout, Request
  <2> QED BY <1>1, <2>1, <2>2 DEF Told, Onwards
<1>3. ASSUME NEW m \in net, Receive(m)
      PROVE  \A d \in Client : Told(d)' => Told(d)
  <2>1. net' \subseteq net /\ m.type = "reply"
    BY <1>3 DEF Receive
  <2>2. \A d \in Client :
          \/ client'[d].result = client[d].result
          \/ d = m.client /\ client'[d].result = m.result /\ m.operation # Get
    BY <1>0, <1>3, ReceivedResult DEF AcceptedInv
  <2> QED BY <1>1, <2>1, <2>2 DEF Told, Onwards
<1>4. \A d \in Client : Told(d)' => Told(d)
  BY <1>2, <1>3
<1> QED BY <1>1, <1>4, AcceptedQuiet DEF moduleVars

LEMMA AcceptedNext ==
  ASSUME AcceptedInv, [Next]_vars
  PROVE  Accepted'
<1>0. TypeOK
  BY DEF AcceptedInv
<1>1. ASSUME NEW m \in net, m.type = "request", Deny(m)
      PROVE  Accepted'
  <2>1. /\ Answers(m, Reply(m, EmptyKey, "DENIED"))
        /\ Reply(m, EmptyKey, "DENIED").result = "DENIED"
    BY <1>0, <1>1, Replies DEF Deny, EmptyKey, NoKey
  <2> QED BY <1>1, <2>1, AcceptedAnswers DEF Deny, moduleVars
<1>2. ASSUME NEW m \in net, m.type = "request",
             m.operation \in {Get, "SET_PUBLIC_KEYS", "REMOVE_PUBLIC_KEYS"},
             NEW k, k # NoKey, NEW r, Take(m, {Reply(m, k, r)}),
             UNCHANGED <<client, params, resets>>
      PROVE  Accepted'
  <2>1. Answers(m, Reply(m, k, r))
    BY <1>0, <1>2, Replies
  <2>2. Reply(m, k, r).operation = m.operation
    BY <2>1 DEF Answers
  <2> QED BY <1>2, <2>1, <2>2, AcceptedAnswers
<1>3. ASSUME NEW m \in net, m.type = "request", GetSessionKey(m)
      PROVE  Accepted'
  <2>1. issued + 1 # NoKey
    BY <1>0, Types DEF NoKey
  <2> QED BY <1>2, <1>3, <2>1 DEF GetSessionKey, make_session_key, Get
<1>4. ASSUME NEW m \in net, m.type = "request", SetPublicKeys(m) \/ RemovePublicKeys(m)
      PROVE  Accepted'
  <2>1. /\ UNCHANGED <<client, params, resets>>
        /\ m.operation \in {"SET_PUBLIC_KEYS", "REMOVE_PUBLIC_KEYS"}
    BY <1>4 DEF SetPublicKeys, RemovePublicKeys
  <2>2. PICK r : Take(m, {Reply(m, EmptyKey, r)})
    BY <1>4, KeyAnswers
  <2> QED BY <1>2, <1>4, <2>1, <2>2 DEF EmptyKey, NoKey
<1>5. ASSUME NEW m \in net, SetConfigResets(m)
      PROVE  Accepted'
  <2>1. resets' > 0 /\ \A x \in Parameters : params'[x] = Default
    BY <1>0, <1>5, Types DEF SetConfigResets
  <2> QED BY <2>1, ClientsAssumption DEF Accepted, ClientsAssumption
<1>6. ASSUME net' \subseteq net, UNCHANGED <<client, params, resets>>
      PROVE  Accepted'
  BY <1>6, AcceptedQuiet DEF Onwards, Told
<1>7. ASSUME NEW m \in net, Lose(m)
      PROVE  Accepted'
  BY <1>6, <1>7 DEF Lose, moduleVars
<1>8. CASE Restart \/ UNCHANGED vars
  BY <1>6, <1>8 DEF Restart, vars
<1> QED
  BY <1>1, <1>3, <1>4, <1>5, <1>7, <1>8, AcceptedSetConfig, AcceptedClients DEF Next, Handle

(***************************************************************************)
(* Refusals.                                                               *)
(***************************************************************************)
DeniedInv == TypeOK /\ Matching /\ LastKey /\ Denied

\* A client that has been superseded stays so; nothing new is refused.
LEMMA DeniedQuiet ==
  ASSUME DeniedInv, Onwards,
         issued' >= issued, restarts' >= restarts, resets' >= resets,
         issued' \in Nat, restarts' \in Nat, resets' \in Nat,
         \A c \in Client : \/ client'[c].result = client[c].result
                           \/ client'[c].result # "DENIED"
                           \/ client[c].stage # "key" /\ Superseded(c)
                           \/ KeyOf[c] \notin StoredKeys,
         \A n \in net' : \/ n \in net \/ n.type # "reply" \/ n.result # "DENIED"
                        \/ /\ n.operation # Get /\ Superseded(n.client)
                           /\ client[n.client].stage # "key" /\ n.client \in Client
                        \/ restarts > 0 \/ resets > 0
                        \/ KeyOf[n.client] \notin StoredKeys
  PROVE  Denied'
<1>0. /\ issued \in Nat /\ restarts \in Nat /\ resets \in Nat
      /\ \A c \in Client : client[c].key \in EmptyKey..issued
      /\ \A n \in net : n.client \in Client
  BY Types DEF DeniedInv, ClientType, Message
<1>1. ASSUME NEW c \in Client, Superseded(c), client[c].stage # "key"
      PROVE  Superseded(c)'
  <2>1. client'[c].key = client[c].key
    BY <1>1 DEF Onwards
  <2> QED BY <1>0, <1>1, <2>1 DEF Superseded, EmptyKey
<1>2. restarts > 0 \/ resets > 0 => restarts' > 0 \/ resets' > 0
  BY <1>0
<1>3. ASSUME NEW c \in Client, client'[c].result = "DENIED", KeyOf[c] \in StoredKeys
      PROVE  Superseded(c)'
  <2>1. CASE client'[c].result = client[c].result
    <3>1. client[c].stage # "key"
      BY <1>3, <2>1 DEF DeniedInv, Matching
    <3>2. Superseded(c)
      BY <1>3, <2>1 DEF DeniedInv, Denied, DeniedWasSuperseded, Superseded
    <3> QED BY <1>1, <3>1, <3>2
  <2>2. CASE client[c].stage # "key" /\ Superseded(c)
    BY <1>1, <2>2
  <2> QED BY <1>3, <2>1, <2>2
<1>4. ASSUME NEW n \in net', n.type = "reply", n.result = "DENIED",
             KeyOf[n.client] \in StoredKeys
      PROVE  \/ n.operation # Get /\ Superseded(n.client)'
             \/ restarts' > 0 \/ resets' > 0
  <2>1. CASE n \in net
    <3>1. n.client \in Client
      BY <1>0, <2>1
    <3>2. CASE n.operation # Get /\ Superseded(n.client)
      <4>1. client[n.client].stage # "key"
        BY <2>1, <3>1, <3>2 DEF DeniedInv, Matching
      <4> QED BY <1>1, <3>1, <3>2, <4>1
    <3>3. CASE restarts > 0 \/ resets > 0
      BY <1>2, <3>3
    <3> QED BY <1>4, <2>1, <3>2, <3>3 DEF DeniedInv, Denied
  <2>2. CASE /\ n.operation # Get /\ Superseded(n.client)
             /\ client[n.client].stage # "key" /\ n.client \in Client
    BY <1>1, <2>2
  <2>3. CASE restarts > 0 \/ resets > 0
    BY <1>2, <2>3
  <2> QED BY <1>4, <2>1, <2>2, <2>3
<1> QED BY <1>3, <1>4 DEF Denied, DeniedWasSuperseded, Superseded

LEMMA DeniedNext ==
  ASSUME DeniedInv, [Next]_vars
  PROVE  Denied'
<1>0. /\ TypeOK /\ issued \in Nat /\ restarts \in Nat /\ resets \in Nat
      /\ client \in [Client -> ClientType(issued)] /\ net \subseteq Message(issued)
  BY Types DEF DeniedInv
<1>1. ASSUME NEW m \in net, NEW a, Answers(m, a), a.result # "DENIED",
             issued' \in {issued, issued + 1}, UNCHANGED <<restarts, resets>>
      PROVE  Denied'
  BY <1>0, <1>1, DeniedQuiet DEF Answers, Onwards
<1>2. ASSUME NEW m \in net, m.type = "request", GetSessionKey(m)
      PROVE  Denied'
  <2>1. issued + 1 # NoKey
    BY <1>0 DEF NoKey
  <2>2. /\ Answers(m, Reply(m, issued + 1, "ACCEPTED"))
        /\ Reply(m, issued + 1, "ACCEPTED").result = "ACCEPTED"
    BY <1>0, <1>2, <2>1, Replies DEF GetSessionKey, make_session_key
  <2> QED BY <1>1, <1>2, <2>2 DEF GetSessionKey, make_session_key
<1>3. ASSUME NEW m \in net, m.type = "request", NEW r \in {"ACCEPTED", "FAILED"},
             Take(m, {Reply(m, EmptyKey, r)}), UNCHANGED <<client, issued, restarts, resets>>
      PROVE  Denied'
  <2>1. Answers(m, Reply(m, EmptyKey, r)) /\ Reply(m, EmptyKey, r).result = r
    BY <1>0, <1>3, Replies DEF EmptyKey, NoKey
  <2> QED BY <1>1, <1>3, <2>1
<1>4. ASSUME NEW m \in net, m.type = "request",
             SetConfig(m) \/ SetPublicKeys(m) \/ RemovePublicKeys(m)
      PROVE  Denied'
  BY <1>3, <1>4, OutcomeType DEF SetConfig, SetPublicKeys, RemovePublicKeys
<1>5. ASSUME NEW m \in net, m.type = "request", Deny(m)
      PROVE  Denied'
  <2> DEFINE a == Reply(m, EmptyKey, "DENIED")
             c == m.client
  <2>1. Answers(m, a) /\ UNCHANGED <<issued, restarts, resets>>
    BY <1>0, <1>5, Replies DEF Deny, EmptyKey, NoKey, moduleVars
  <2>2. a.client = c /\ a.operation = m.operation /\ c \in Client
    BY <1>0, <2>1 DEF Answers, Message
  <2>3. ASSUME KeyOf[c] \in StoredKeys, restarts = 0, resets = 0
        PROVE  /\ m.operation # Get /\ Superseded(c) /\ client[c].stage # "key"
    <3>1. public_keys = StoredKeys /\ session_key = issued
      BY <2>3 DEF DeniedInv, LastKey
    <3>2. m.operation # Get /\ m.key # issued
      BY <1>5, <2>3, <3>1 DEF Deny, CheckSignature, no_public_keys, Get
    <3>3. client[c].stage # "key" /\ client[c].key = m.key
      BY <1>5, <2>2, <3>2 DEF DeniedInv, Matching
    <3>4. client[c].key \in EmptyKey..issued
      BY <1>0, <2>2 DEF ClientType
    <3> QED BY <1>0, <3>2, <3>3, <3>4 DEF Superseded, EmptyKey
  <2>4. \/ a.operation # Get /\ Superseded(c) /\ client[c].stage # "key"
        \/ restarts > 0 \/ resets > 0
        \/ KeyOf[c] \notin StoredKeys
    BY <1>0, <2>2, <2>3
  <2> HIDE DEF a
  <2> QED BY <1>0, <2>1, <2>2, <2>4, DeniedQuiet DEF Answers, Onwards
<1>6. ASSUME net' \subseteq net, UNCHANGED <<client, issued>>,
             restarts' \in {restarts, restarts + 1}, resets' \in {resets, resets + 1}
      PROVE  Denied'
  BY <1>0, <1>6, DeniedQuiet DEF Onwards
<1>7. ASSUME NEW m \in net, SetConfigResets(m) \/ Lose(m)
      PROVE  Denied'
  BY <1>0, <1>6, <1>7, TakeNet DEF SetConfigResets, Lose, moduleVars
<1>8. CASE Restart \/ UNCHANGED vars
  BY <1>6, <1>8 DEF Restart, vars
<1>9. ASSUME NEW c \in Client, Send(c) \/ Timeout(c)
      PROVE  Denied'
  <2>1. \A d \in Client : client'[d].result = client[d].result
    BY <1>0, <1>9, ClientResults
  <2>2. \A n \in net' : n \in net \/ n.type # "reply"
    BY <1>9 DEF Send, Timeout, Request
  <2>3. Onwards /\ UNCHANGED moduleVars
    BY <1>0, <1>9, ClientSteps
  <2> QED BY <1>0, <2>1, <2>2, <2>3, DeniedQuiet DEF moduleVars
<1>10. ASSUME NEW m \in net, Receive(m)
       PROVE  Denied'
  <2>1. net' \subseteq net /\ m.type = "reply"
    BY <1>10 DEF Receive
  <2>2. Onwards /\ UNCHANGED moduleVars
    BY <1>0, <1>10, ClientSteps
  <2>3. \A d \in Client :
          \/ client'[d].result = client[d].result
          \/ d = m.client /\ client'[d].result = m.result /\ m.operation # Get
    BY <1>0, <1>10, ReceivedResult DEF DeniedInv
  <2>4. \A d \in Client : \/ client'[d].result = client[d].result
                          \/ client'[d].result # "DENIED"
                          \/ client[d].stage # "key" /\ Superseded(d)
                          \/ KeyOf[d] \notin StoredKeys
    BY <2>1, <2>3 DEF DeniedInv, Denied, Matching, Superseded
  <2> QED BY <1>0, <2>1, <2>2, <2>4, DeniedQuiet DEF moduleVars
<1> QED
  BY <1>2, <1>4, <1>5, <1>7, <1>8, <1>9, <1>10 DEF Next, Handle

(***************************************************************************)
(* The theorems.                                                           *)
(***************************************************************************)
LEMMA InitHolds == Init => IInv
<1> SUFFICES ASSUME Init PROVE IInv
  OBVIOUS
<1>1. /\ session_key = 0 /\ issued = 0 /\ net = {} /\ public_keys = StoredKeys
      /\ \A x \in Parameters : params[x] = Default
      /\ restarts = 0 /\ resets = 0
  BY DEF Init, NoKey
<1>2. \A c \in Client : /\ client[c].stage = "key" /\ client[c].key = NoKey
                        /\ client[c].waiting = 0 /\ client[c].sent = 0
                        /\ client[c].result = "none"
  BY DEF Init
<1>3. TypeOK
  BY InitTypes
<1>4. Matching
  BY <1>1, <1>2 DEF Matching
<1>5. OneHolder /\ LastKey
  BY <1>1 DEF OneHolder, LastKey, NoKey
<1>6. Accepted
  BY <1>1, <1>2, ClientsAssumption DEF Accepted, Told, ClientsAssumption
<1>7. Denied
  BY <1>1, <1>2 DEF Denied, DeniedWasSuperseded
<1> QED BY <1>3, <1>4, <1>5, <1>6, <1>7 DEF IInv

LEMMA NextHolds == IInv /\ [Next]_vars => IInv'
BY NextTypes, MatchingNext, OneHolderNext, LastKeyNext, AcceptedNext, DeniedNext
   DEF IInv, AcceptedInv, DeniedInv

\* A change that was answered ACCEPTED stays until a client with a later
\* session key overwrites it, for any number of clients, changes and keys:
\* the module applies a change only under the last key it made, and a key
\* belongs to one client (transport.cpp:170-173).
THEOREM AcceptedIsKept == Spec => []AcceptedStays
<1>1. IInv => AcceptedStays
  BY DEF IInv, Accepted, Told, Kept, AcceptedStays
<1> QED BY InitHolds, NextHolds, <1>1, PTL DEF Spec

\* A client whose key is stored is refused only if a later session key was
\* made or the module restarted (mavlink_secure_command.cpp:22).
THEOREM DeniedIsSuperseded == Spec => []DeniedWasSuperseded
<1>1. IInv => DeniedWasSuperseded
  BY DEF IInv, Denied
<1> QED BY InitHolds, NextHolds, <1>1, PTL DEF Spec
=============================================================================
