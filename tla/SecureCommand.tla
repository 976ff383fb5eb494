---------------------------- MODULE SecureCommand ----------------------------
(***************************************************************************)
(* Signed commands: a client asks for a session key, then signs a change   *)
(* with it (DroneCAN::handle_SecureCommand, MAVLinkSerial::                *)
(* handle_secure_command, Transport::check_signature, and the client       *)
(* scripts/secure_command.py, which repeats each request until it is       *)
(* answered).  Several clients share one transport, its one session key    *)
(* and the parameters; requests and answers may be lost, come late or come *)
(* twice, and the module may restart.                                      *)
(*                                                                         *)
(* The module's side is MAVLink's: DroneCAN differs in that it answers     *)
(* UNSUPPORTED to the two operations on public keys and changes nothing.   *)
(*                                                                         *)
(* Session keys are numbered in the order they are made: no two are equal. *)
(* A change is a sequence of the names it sets.  PUBLIC_KEY1 to 5 are not  *)
(* among them: an item that names one stores a key, as SetPublicKeys does. *)
(***************************************************************************)
EXTENDS Integers, Sequences, FiniteSets

CONSTANTS
  Client,
  KeyOf,         \* the slot of the public key that fits the client's private one
  Wishes,        \* the operations each client may be after
  Changes,       \* the names it may set, in their order
  Parameters,    \* the parameters a change may set
  Silent,        \* what is answered like a success and sets nothing
  StoredKeys,    \* the public keys in the parameters at first
  ReleaseKeys,   \* those that come with the defaults
  MaxLost,       \* bound on lost messages
  MaxLate,       \* bound on late and repeated messages
  MaxRestarts,   \* bound on power cuts
  MaxResets      \* bound on resets to the defaults

KeySlots == 1..5     \* MAX_PUBLIC_KEYS
NoKey == 0           \* the session key at power-up
EmptyKey == -1       \* the data of an answer that carries none

Default == "default"

Operations == {"SET_REMOTEID_CONFIG", "SET_PUBLIC_KEYS", "REMOVE_PUBLIC_KEYS"}

ASSUME ClientsAssumption ==
  /\ KeyOf \in [Client -> KeySlots]
  /\ Wishes \in [Client -> SUBSET Operations]
  /\ \A c \in Client : Changes[c] \subseteq Seq(STRING)
  /\ Default \notin Client
  /\ "TO_DEFAULTS" \notin Parameters \cup Silent
  /\ StoredKeys \subseteq KeySlots /\ StoredKeys # {}
  /\ ReleaseKeys \subseteq KeySlots

ASSUME BoundsAssumption ==
  MaxLost \in Nat /\ MaxLate \in Nat /\ MaxRestarts \in Nat /\ MaxResets \in Nat

VARIABLES
  session_key,   \* of the transport
  public_keys,   \* the slots that hold a key
  params,        \* who set each parameter last, Default if nobody did
  issued,        \* how many session keys were made
  net,           \* requests and answers under way
  client,        \* what each client is after, how far it is and what it was told
  lost, late, restarts, resets

vars == <<session_key, public_keys, params, issued, net, client, lost, late,
          restarts, resets>>
moduleVars == <<session_key, public_keys, params, issued, restarts, resets>>

Request(c, id, op, key) ==
  [type |-> "request", client |-> c, id |-> id, operation |-> op, key |-> key, result |-> "none"]

Reply(m, key, result) ==
  [m EXCEPT !.type = "reply", !.key = key, !.result = result]

(***************************************************************************)
(* The module.                                                             *)
(***************************************************************************)
no_public_keys == public_keys = {}

CheckSignature_NoSession(m) == no_public_keys \/ KeyOf[m.client] \in public_keys

\* Without public keys anything passes; otherwise one of them must fit, and
\* everything but the request for a session key is signed over the last one.
CheckSignature(m) ==
  \/ no_public_keys
  \/ /\ KeyOf[m.client] \in public_keys
     /\ m.operation = "GET_SESSION_KEY" \/ m.key = session_key

\* A request is handled and leaves the network, unless it comes once more.
Take(m, replies) ==
  \/ net' = (net \ {m}) \cup replies /\ UNCHANGED late
  \/ net' = net \cup replies /\ late < MaxLate /\ late' = late + 1

Deny(m) ==
  /\ ~CheckSignature(m)
  /\ Take(m, {Reply(m, EmptyKey, "DENIED")})
  /\ UNCHANGED <<moduleVars, client, lost>>

\* The time, the MAC address and a random number: no key is made twice.
make_session_key == issued + 1

GetSessionKey_NotKept(m) ==
  /\ m.operation = "GET_SESSION_KEY" /\ CheckSignature(m)
  /\ issued' = issued + 1
  /\ Take(m, {Reply(m, issued + 1, "ACCEPTED")})
  /\ UNCHANGED <<session_key, public_keys, params, client, lost, restarts, resets>>

GetSessionKey(m) ==
  /\ m.operation = "GET_SESSION_KEY" /\ CheckSignature(m)
  /\ issued' = make_session_key
  /\ session_key' = make_session_key
  /\ Take(m, {Reply(m, make_session_key, "ACCEPTED")})
  /\ UNCHANGED <<public_keys, params, client, lost, restarts, resets>>

\* The items of a change are worked off one by one; one that fails does not
\* stop the rest, and TO_DEFAULTS=1 restarts the module at once.
Worked(change) ==
  {change[i] : i \in {i \in DOMAIN change : \A j \in 1..i : change[j] # "TO_DEFAULTS"}}
Resets(change) == \E i \in DOMAIN change : change[i] = "TO_DEFAULTS"
Applied(change) == Worked(change) \cap Parameters
Outcome(change) ==
  IF Worked(change) \subseteq Parameters \cup Silent THEN "ACCEPTED" ELSE "FAILED"

ChangeOf(m) == client[m.client].change

SetConfig(m) ==
  /\ m.operation = "SET_REMOTEID_CONFIG" /\ CheckSignature(m) /\ ~Resets(ChangeOf(m))
  /\ params' = [x \in Parameters |->
                IF x \in Applied(ChangeOf(m)) THEN m.client ELSE params[x]]
  /\ Take(m, {Reply(m, EmptyKey, Outcome(ChangeOf(m)))})
  /\ UNCHANGED <<session_key, public_keys, issued, client, lost, restarts, resets>>

\* nvs_flash_erase() and esp_restart() inside set_uint8(): nobody answers.
SetConfigResets(m) ==
  /\ m.operation = "SET_REMOTEID_CONFIG" /\ CheckSignature(m) /\ Resets(ChangeOf(m))
  /\ params' = [x \in Parameters |-> Default]
  /\ public_keys' = ReleaseKeys
  /\ session_key' = NoKey
  /\ resets < MaxResets /\ resets' = resets + 1
  /\ Take(m, {})
  /\ UNCHANGED <<issued, client, lost, restarts>>

\* The name of a key's parameter is made by putting a digit at strlen(name)-2
\* of "PUBLIC_KEYx"; these are its last two characters.
Digit == <<"1", "2", "3", "4", "5">>
KeyName(slot) == [<<"Y", "x">> EXCEPT ![1] = Digit[slot]]
KeyParameters == {<<"Y", Digit[slot]>> : slot \in KeySlots}
Found(slot) == KeyName(slot) \in KeyParameters

SetPublicKeys(m) ==
  /\ m.operation = "SET_PUBLIC_KEYS" /\ CheckSignature(m)
  /\ \E slot \in KeySlots :
       /\ public_keys' = IF Found(slot) THEN public_keys \cup {slot} ELSE public_keys
       /\ Take(m, {Reply(m, EmptyKey, IF Found(slot) THEN "ACCEPTED" ELSE "FAILED")})
  /\ UNCHANGED <<session_key, params, issued, client, lost, restarts, resets>>

\* The result of remove_public_key() is not looked at.
RemovePublicKeys(m) ==
  /\ m.operation = "REMOVE_PUBLIC_KEYS" /\ CheckSignature(m)
  /\ \E slot \in KeySlots :
       public_keys' = IF Found(slot) THEN public_keys \ {slot} ELSE public_keys
  /\ Take(m, {Reply(m, EmptyKey, "ACCEPTED")})
  /\ UNCHANGED <<session_key, params, issued, client, lost, restarts, resets>>

Handle(m) ==
  /\ m \in net /\ m.type = "request"
  /\ \/ Deny(m)
     \/ GetSessionKey(m)
     \/ SetConfig(m) \/ SetConfigResets(m)
     \/ SetPublicKeys(m) \/ RemovePublicKeys(m)

\* A power cut; the parameters are in flash, the session key is not.
Restart ==
  /\ restarts < MaxRestarts /\ restarts' = restarts + 1
  /\ session_key' = NoKey
  /\ UNCHANGED <<public_keys, params, issued, net, client, lost, late, resets>>

(***************************************************************************)
(* The client: one request at a time, its answer is awaited or times out;  *)
(* a session key is asked for once, whatever becomes of the change.        *)
(***************************************************************************)
Send(c) ==
  /\ client[c].stage # "done" /\ client[c].waiting = 0
  /\ LET id == client[c].sent + 1
         op == IF client[c].stage = "key" THEN "GET_SESSION_KEY" ELSE client[c].op
     IN  /\ net' = net \cup {Request(c, id, op, client[c].key)}
         /\ client' = [client EXCEPT ![c].sent = id, ![c].waiting = id]
  /\ UNCHANGED <<moduleVars, lost, late>>

UnderWay(c) == {m \in net : m.client = c /\ m.id = client[c].waiting}

Timeout_KeyOnly(c) ==
  /\ client[c].stage = "key" /\ client[c].waiting # 0 /\ UnderWay(c) = {}
  /\ client' = [client EXCEPT ![c].waiting = 0]
  /\ UNCHANGED <<moduleVars, net, lost, late>>

\* A timeout comes when the request or its answer was lost, or is late.
Timeout(c) ==
  /\ client[c].waiting # 0
  /\ \/ UnderWay(c) = {} /\ UNCHANGED late
     \/ UnderWay(c) # {} /\ late < MaxLate /\ late' = late + 1
  /\ client' = [client EXCEPT ![c].waiting = 0]
  /\ UNCHANGED <<moduleVars, net, lost>>

Receive(m) ==
  /\ m \in net /\ m.type = "reply"
  /\ net' = net \ {m}
  /\ client' =
       IF m.id # client[m.client].waiting THEN client
       ELSE IF client[m.client].stage = "key"
         THEN [client EXCEPT ![m.client].stage = "change", ![m.client].key = m.key,
                             ![m.client].waiting = 0]
         ELSE [client EXCEPT ![m.client].stage = "done", ![m.client].result = m.result,
                             ![m.client].waiting = 0]
  /\ UNCHANGED <<moduleVars, lost, late>>

Lose(m) ==
  /\ m \in net /\ lost < MaxLost
  /\ lost' = lost + 1
  /\ net' = net \ {m}
  /\ UNCHANGED <<moduleVars, client, late>>

Init ==
  /\ session_key = NoKey /\ public_keys = StoredKeys
  /\ params = [x \in Parameters |-> Default]
  /\ issued = 0 /\ net = {}
  /\ \E op \in [Client -> Operations], change \in [Client -> UNION {Changes[c] : c \in Client}] :
       /\ \A c \in Client : op[c] \in Wishes[c] /\ change[c] \in Changes[c]
       /\ client = [c \in Client |->
                      [op |-> op[c], change |-> change[c], stage |-> "key", key |-> NoKey,
                       waiting |-> 0, sent |-> 0, result |-> "none"]]
  /\ lost = 0 /\ late = 0 /\ restarts = 0 /\ resets = 0

Next ==
  \/ \E m \in net : Handle(m) \/ Receive(m) \/ Lose(m)
  \/ \E c \in Client : Send(c) \/ Timeout(c)
  \/ Restart

Spec == Init /\ [][Next]_vars

\* The module and the clients go on, and what is not lost is delivered.
FairSpec ==
  /\ Spec
  /\ WF_vars(\E m \in net : Handle(m) \/ Receive(m))
  /\ \A c \in Client : WF_vars(Send(c)) /\ WF_vars(Timeout(c))

(***************************************************************************)
(* Properties.                                                             *)
(***************************************************************************)
Results == {"none", "ACCEPTED", "FAILED", "DENIED"}

TypeOK ==
  /\ session_key \in 0..issued /\ issued \in Nat
  /\ public_keys \subseteq KeySlots
  /\ params \in [Parameters -> Client \cup {Default}]
  /\ net \subseteq [type : {"request", "reply"}, client : Client, id : Nat,
                    operation : Operations \cup {"GET_SESSION_KEY"},
                    key : EmptyKey..issued, result : Results]
  /\ client \in [Client -> [op : Operations, change : Seq(STRING),
                            stage : {"key", "change", "done"}, key : EmptyKey..issued,
                            waiting : Nat, sent : Nat, result : Results]]
  /\ lost \in 0..MaxLost /\ late \in 0..MaxLate
  /\ restarts \in 0..MaxRestarts /\ resets \in 0..MaxResets

\* A change that was answered ACCEPTED stays until a client that was given a
\* session key later overwrites it: no late or repeated request of an older
\* session undoes it (transport.cpp:170-173).
AcceptedStays ==
  resets = 0 =>
    \A c \in Client :
      client[c].result = "ACCEPTED" /\ client[c].op = "SET_REMOTEID_CONFIG" =>
        \A x \in Applied(client[c].change) :
          \/ params[x] = c
          \/ params[x] \in Client /\ client[params[x]].key > client[c].key

\* A client whose key the module holds is refused only when its session key
\* was replaced or forgotten since: a later one was made, or the module has
\* restarted (mavlink_secure_command.cpp:22).
DeniedWasSuperseded ==
  \A c \in Client :
    client[c].result = "DENIED" /\ KeyOf[c] \in StoredKeys =>
      issued > client[c].key \/ restarts > 0 \/ resets > 0

\* The client of secure_command.py comes to an end, whatever is lost or comes
\* late, unless its change restarts the module before it is answered
\* (scripts/secure_command.py:141-151).
EveryClientEnds ==
  \A c \in Client :
    (client[c].op = "SET_REMOTEID_CONFIG" => ~Resets(client[c].change))
      => <>(client[c].stage = "done")
=============================================================================
