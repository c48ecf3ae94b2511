--------------------------- MODULE ObjectPromise ---------------------------
(***************************************************************************)
(* What a client of a virtual bucket may rely on, without staging keys,    *)
(* final keys, reservations or provider calls: a key holds the complete     *)
(* bytes of one committed upload, an upload takes effect at once and at     *)
(* most once, and bytes disappear only while somebody deletes the key.      *)
(***************************************************************************)
CONSTANTS Keys, Ids, Payloads, Absent

VARIABLES
  content,    \* what a reader of each key gets
  open,       \* the key of each open upload, Absent for the others
  delivered,  \* the complete payloads that have arrived for each upload
  wanted      \* the keys a delete request is working on

vars == <<content, open, delivered, wanted>>

Init ==
  /\ content = [k \in Keys |-> Absent]
  /\ open = [u \in Ids |-> Absent]
  /\ delivered = [u \in Ids |-> {}]
  /\ wanted = {}

(* An upload is opened for a key, or closed without effect. *)
Open(u, k) ==
  /\ open[u] = Absent
  /\ delivered[u] = {}
  /\ open' = [open EXCEPT ![u] = k]
  /\ UNCHANGED <<content, delivered, wanted>>

Withdraw(u) ==
  /\ open[u] # Absent
  /\ open' = [open EXCEPT ![u] = Absent]
  /\ UNCHANGED <<content, delivered, wanted>>

(* Bytes may arrive late, after the upload was closed: to no effect. *)
Deliver(u, v) ==
  /\ delivered' = [delivered EXCEPT ![u] = @ \cup {v}]
  /\ UNCHANGED <<content, open, wanted>>

Publish(u, v) ==
  /\ open[u] # Absent
  /\ v \in delivered[u]
  /\ content' = [content EXCEPT ![open[u]] = v]
  /\ open' = [open EXCEPT ![u] = Absent]
  /\ UNCHANGED <<delivered, wanted>>

Want(K) ==
  /\ wanted' = K
  /\ UNCHANGED <<content, open, delivered>>

(* The bytes of a key go; the request that removed them may end with it. *)
Remove(k, K) ==
  /\ k \in wanted
  /\ content' = [content EXCEPT ![k] = Absent]
  /\ wanted' = K
  /\ UNCHANGED <<open, delivered>>

Next ==
  \/ \E u \in Ids : \/ Withdraw(u)
                    \/ \E k \in Keys : Open(u, k)
                    \/ \E v \in Payloads : Deliver(u, v) \/ Publish(u, v)
  \/ \E K \in SUBSET Keys : Want(K) \/ \E k \in Keys : Remove(k, K)

Spec == Init /\ [][Next]_vars
=============================================================================
