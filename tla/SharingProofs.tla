---------------------------- MODULE SharingProofs ----------------------------
(***************************************************************************)
(* Theorems about Sharing, for every set of keys, aliases and requests and  *)
(* every bound on physical keys and capabilities.                           *)
(***************************************************************************)
EXTENDS Sharing, TLAPS

(* What the writers and the handlers remember. *)
WriteTypes == [op : {"none", "replace", "delete", "copied", "deleted"},
               next : 0..MaxFiles, old : 0..MaxFiles, seen : SUBSET caps]
LocalTypes == [op : {"idle", "link", "download", "insert", "resolve"},
               key : Keys \cup {None}, slug : Slugs \cup {None}, o : Row, public : BOOLEAN]

Mapped(k) == objects[k] # NoObject
Under(r) == req[r].o # NoObject
Rotating(k) == write[k].op \in {"copied", "deleted"}

Types ==
  /\ relayed \in BOOLEAN
  /\ bucket \in {"public", "private", "deleting", "gone"}
  /\ objects \in [Keys -> Row]
  /\ files \in [Files -> 0..MaxFiles]
  /\ links \in [Slugs -> [obj : 0..MaxFiles, live : BOOLEAN]]
  /\ tokens \subseteq caps /\ caps \subseteq Caps /\ retired \subseteq caps
  /\ write \in [Keys -> WriteTypes]
  /\ req \in [Requests -> LocalTypes]
  /\ aim \in [Slugs -> 0..MaxFiles]
  /\ \A k \in Keys : Mapped(k) => objects[k].id \in Files /\ objects[k].phys \in Files
  /\ \A r \in Requests : Under(r) => req[r].o.id \in Files /\ req[r].o.phys \in Files

(* A handler that has yet to read the row knows its key. *)
Asked == \A r \in Requests : req[r].op \in {"link", "download"} => req[r].key \in Keys

(* A writer works on the row it has read, and a rotation on two keys. *)
Writers ==
  \A k \in Keys :
    /\ write[k].op = "replace" => write[k].old \in Files
    /\ write[k].op \in {"delete", "copied", "deleted"} =>
         Mapped(k) /\ write[k].old = objects[k].phys
    /\ Rotating(k) => write[k].next \in Files
    /\ write[k].op \in {"delete", "deleted"} => files[write[k].old] = 0
    /\ \A c \in write[k].seen : c.phys = write[k].old
    /\ write[k].op \in {"none", "replace"} => write[k].seen = {}

(* The foreign keys, and what an alias was asked for. *)
Aliases ==
  /\ \A s \in Slugs : links[s] # NoLink =>
       /\ links[s].obj \in Files /\ links[s].obj = aim[s] /\ Exists(links[s].obj)
  /\ \A r \in Requests : req[r].op \in {"insert", "resolve"} =>
       Under(r) /\ req[r].slug \in Slugs /\ aim[req[r].slug] = req[r].o.id
  /\ \A c \in caps : c.via # None => aim[c.via] = c.obj
  /\ \A t \in tokens : Exists(t.obj)

(* Whoever remembers a physical key takes it for a key of some object. *)
Refs ==
  {<<objects[k].id, objects[k].phys>> : k \in {l \in Keys : Mapped(l)}}
    \cup {<<objects[k].id, write[k].next>> : k \in {l \in Keys : Rotating(l)}}
    \cup {<<req[r].o.id, req[r].o.phys>> : r \in {q \in Requests : Under(q)}}
    \cup {<<c.obj, c.phys>> : c \in caps}

(* All take it for a key of the same object, and it holds that object's      *)
(* bytes or none.                                                            *)
Owned == \A a, b \in Refs : a[2] = b[2] => a[1] = b[1]
Filled == \A a \in Refs : files[a[2]] \in {0, a[1]}

(* A physical key is mapped for one logical key, nobody but the rotation     *)
(* that writes it knows the next one, and what was retired is not mapped.    *)
Alone ==
  /\ \A k, l \in Keys : Mapped(k) /\ Mapped(l) /\ objects[k].phys = objects[l].phys => k = l
  /\ \A k, l \in Keys : Rotating(k) /\ Rotating(l) /\ write[k].next = write[l].next => k = l
  /\ \A k \in Keys : Rotating(k) =>
       /\ \A l \in Keys : Mapped(l) => objects[l].phys # write[k].next
       /\ \A r \in Requests : Under(r) => req[r].o.phys # write[k].next
       /\ \A c \in caps : c.phys # write[k].next
Withdrawn ==
  \A c \in retired : /\ files[c.phys] = 0
                     /\ \A k \in Keys : Mapped(k) => objects[k].phys # c.phys

IInv == Types /\ Asked /\ Writers /\ Aliases /\ Owned /\ Filled /\ Alone /\ Withdrawn

-----------------------------------------------------------------------------
(* Facts about the operators of Sharing. *)

LEMMA FileNumbers == MaxFiles \in Nat /\ Files = 1..MaxFiles /\ 0 \notin Files /\ Files \subseteq 0..MaxFiles
                     /\ 0 \in 0..MaxFiles
BY SharingAssumption DEF Files

LEMMA NoObjectFacts == NoObject.id = 0 /\ NoObject.phys = 0 /\ NoObject \in Row
BY FileNumbers DEF NoObject, Row

(* A physical key that is drawn is known to nobody. *)
LEMMA FreshFacts ==
  ASSUME NEW f, Fresh(f)
  PROVE  /\ f \in Files
         /\ \A k \in Keys : objects[k].phys # f /\ write[k].next # f /\ write[k].old # f
         /\ \A r \in Requests : req[r].o.phys # f
         /\ \A c \in caps : c.phys # f
         /\ f \in Files => files[f] = 0
BY DEF Fresh, Drawn

(* The row an id names. *)
LEMMA RowFacts ==
  ASSUME Types, NEW id \in Files, Exists(id)
  PROVE  \E k \in Keys : Mapped(k) /\ RowOf(id) = objects[k] /\ objects[k].id = id
<1>1. PICK k \in Keys : k = (CHOOSE l \in Keys : objects[l].id = id) /\ objects[k].id = id
  BY DEF Exists
<1>2. Mapped(k)
  BY <1>1, FileNumbers, NoObjectFacts DEF Mapped
<1> QED BY <1>1, <1>2 DEF RowOf

(* What is handed out names the object that the handler has read, under a   *)
(* physical key that it has read or that the row now has.                   *)
Gives(r, via, c) ==
  /\ caps' = caps \cup {c} /\ c.via = via /\ c.obj = req[r].o.id
  /\ \/ c.phys = req[r].o.phys
     \/ \E k \in Keys : Mapped(k) /\ objects[k].id = c.obj /\ objects[k].phys = c.phys
  /\ tokens' = tokens \/ (tokens' = tokens \cup {c} /\ Exists(c.obj))

LEMMA HandFacts ==
  ASSUME Types, NEW r \in Requests, Under(r), NEW via \in Slugs \cup {None}, Hand(req[r].o, via)
  PROVE  \E c \in Caps : Gives(r, via, c)
<1> DEFINE o == req[r].o
           phys == IF relayed /\ Exists(o.id) THEN RowOf(o.id).phys ELSE o.phys
           c == [via |-> via, obj |-> o.id, phys |-> phys]
<1>1. o.id \in Files /\ o.phys \in Files
  BY DEF Types
<1>2. Exists(o.id) => \E k \in Keys : Mapped(k) /\ RowOf(o.id) = objects[k] /\ objects[k].id = o.id
  BY <1>1, RowFacts
<1>3. phys \in Files /\ (phys = o.phys \/ \E k \in Keys : Mapped(k) /\ objects[k].id = o.id /\ objects[k].phys = phys)
  BY <1>1, <1>2 DEF Types
<1>4. /\ caps' = caps \cup {c}
      /\ tokens' = IF relayed /\ Exists(o.id) THEN tokens \cup {c} ELSE tokens
  BY DEF Hand
<1> HIDE DEF phys, o
<1>5. c \in Caps /\ c.via = via /\ c.obj = o.id /\ c.phys = phys
  BY <1>1, <1>3 DEF Caps
<1> HIDE DEF c
<1> QED BY <1>3, <1>4, <1>5 DEF o, Gives

-----------------------------------------------------------------------------
(* The steps, by what they touch. *)

Writes(k) ==
  \/ CommitUpload(k) \/ CommitDeleteOld(k) \/ DeletePhysical(k) \/ DeleteObject(k)
  \/ RotateCopy(k) \/ RotateDelete(k) \/ RotatePhysicalKey(k) \/ RotateRestore(k) \/ GiveUp(k)
Shares(r) ==
  \/ Authenticate(r) \/ GetObject(r) \/ DownloadURL(r) \/ NewPublicLink(r)
  \/ CreatePublicLink(r) \/ ResolvePublic(r) \/ \E s \in Slugs : PublicObject(r, s)
Administers ==
  (\E s \in Slugs : RevokePublicLink(s)) \/ UpdateBucket \/ BeginBucketDeletion \/ FinishBucketDeletion

LEMMA NextCases ==
  Next <=> /\ (\E k \in Keys : Writes(k)) \/ (\E r \in Requests : Shares(r)) \/ Administers
           /\ UNCHANGED relayed
BY DEF Next, Change, Writes, Shares, Administers

(* A writer changes its own key's row and locals. *)
LEMMA WriteFrame ==
  ASSUME Types, Writers, NEW k \in Keys, Writes(k)
  PROVE  /\ UNCHANGED <<bucket, caps, req, aim>>
         /\ \A l \in Keys \ {k} : objects'[l] = objects[l] /\ write'[l] = write[l]
         /\ write' \in [Keys -> WriteTypes] /\ objects' \in [Keys -> Row]
         /\ files' \in [Files -> 0..MaxFiles]
         /\ objects'[k] # NoObject => objects'[k].id \in Files /\ objects'[k].phys \in Files
<1> USE FileNumbers, NoObjectFacts DEF Types
<1>w. write[k] \in WriteTypes /\ objects[k] \in Row
  OBVIOUS
<1>s. Still \in WriteTypes
  BY DEF Still, WriteTypes
<1>1. CASE CommitUpload(k)
  <2>1. PICK f \in Files : /\ files' = [files EXCEPT ![f] = NewId(k, f)]
                           /\ objects' = [objects EXCEPT ![k] = [id |-> NewId(k, f), phys |-> f]]
                           /\ write' = [write EXCEPT ![k] = IF objects[k] = NoObject THEN Still
                                          ELSE [Still EXCEPT !.op = "replace", !.old = objects[k].phys]]
    BY <1>1 DEF CommitUpload
  <2>2. NewId(k, f) \in Files /\ NewId(k, f) \in 0..MaxFiles /\ f \in 0..MaxFiles
    BY DEF NewId, Mapped
  <2>3. [id |-> NewId(k, f), phys |-> f] \in Row
    BY <2>2 DEF Row
  <2>4. [Still EXCEPT !.op = "replace", !.old = objects[k].phys] \in WriteTypes
    BY <1>w DEF Still, WriteTypes, Row
  <2> QED BY <1>1, <1>s, <2>1, <2>2, <2>3, <2>4 DEF CommitUpload
<1>2. CASE CommitDeleteOld(k)
  BY <1>2, <1>s DEF CommitDeleteOld, Mapped
<1>3. ASSUME NEW op \in {"delete", "copied"}, NEW next \in 0..MaxFiles, Begin(k, op, next)
      PROVE  write' \in [Keys -> WriteTypes] /\ \A l \in Keys \ {k} : write'[l] = write[l]
  <2>1. Naming(k) \in SUBSET caps
    BY DEF Naming
  <2>2. [op |-> op, next |-> next, old |-> objects[k].phys, seen |-> Naming(k)] \in WriteTypes
    BY <1>w, <2>1 DEF WriteTypes, Row
  <2> QED BY <1>3, <2>2 DEF Begin
<1>4. CASE DeletePhysical(k)
  BY <1>3, <1>4 DEF DeletePhysical, Mapped
<1>5. CASE DeleteObject(k)
  BY <1>5, <1>s DEF DeleteObject, Mapped
<1>6. CASE RotateCopy(k)
  <2>1. PICK f \in Files : Begin(k, "copied", f) /\ files' = [files EXCEPT ![f] = files[objects[k].phys]]
    BY <1>6 DEF RotateCopy
  <2>2. objects[k].phys \in Files /\ files[objects[k].phys] \in 0..MaxFiles
    BY <2>1 DEF Begin, Mapped
  <2>3. write' \in [Keys -> WriteTypes] /\ \A l \in Keys \ {k} : write'[l] = write[l]
    BY <1>3, <2>1
  <2> QED BY <1>6, <2>1, <2>2, <2>3 DEF RotateCopy, Mapped
<1>7. CASE RotateDelete(k)
  <2>1. [write[k] EXCEPT !.op = "deleted"] \in WriteTypes
    BY <1>w DEF WriteTypes
  <2> QED BY <1>7, <2>1 DEF RotateDelete, Mapped
<1>8. CASE RotatePhysicalKey(k)
  <2>1. [objects[k] EXCEPT !.phys = write[k].next] \in Row
    BY <1>w DEF Row, WriteTypes
  <2>2. write[k].next \in Files /\ Mapped(k)
    BY <1>8 DEF RotatePhysicalKey, Writers, Rotating
  <2> QED BY <1>8, <1>s, <1>w, <2>1, <2>2 DEF RotatePhysicalKey, Mapped, Row
<1>9. CASE RotateRestore(k)
  <2>1. write[k].next \in Files /\ files[write[k].next] \in 0..MaxFiles
    BY <1>9 DEF RotateRestore, Writers, Rotating
  <2> QED BY <1>9, <1>s, <2>1 DEF RotateRestore, Mapped
<1>10. CASE GiveUp(k)
  BY <1>10, <1>s DEF GiveUp, Mapped
<1> QED BY <1>1, <1>2, <1>4, <1>5, <1>6, <1>7, <1>8, <1>9, <1>10 DEF Writes

(* A handler changes its own locals, and hands out what it has read.        *)
Handed(r, c) ==
  /\ Under(r) /\ Gives(r, c.via, c)
  /\ c.via # None => req[r].op = "resolve" /\ c.via = req[r].slug

Aims(r) ==
  \/ UNCHANGED aim
  \/ \E s \in Slugs : /\ aim[s] = 0 /\ Under(r) /\ aim' = [aim EXCEPT ![s] = req[r].o.id]
                      /\ req'[r].slug = s

Links(r) ==
  \/ UNCHANGED links
  \/ /\ req[r].op = "insert" /\ Exists(req[r].o.id)
     /\ links' = [links EXCEPT ![req[r].slug] = [obj |-> req[r].o.id, live |-> TRUE]]

Looks(r) == 
  Under(r)' => \/ Under(r) /\ req'[r].o = req[r].o
               \/ \E k \in Keys : Mapped(k) /\ req'[r].o = objects[k]

Learns(r) ==
  req'[r].op \in {"insert", "resolve"} =>
    /\ req'[r].slug \in Slugs /\ Under(r)'
    /\ \/ aim'[req'[r].slug] = req'[r].o.id
       \/ /\ links[req'[r].slug] # NoLink /\ UNCHANGED aim
          /\ req'[r].o.id = links[req'[r].slug].obj

Asks(r) == req'[r].op \in {"link", "download"} => req'[r].key \in Keys

LEMMA ShareFrame ==
  ASSUME Types, Asked, Aliases, NEW r \in Requests, Shares(r)
  PROVE  /\ UNCHANGED <<bucket, objects, files, write, retired>>
         /\ req' \in [Requests -> LocalTypes] /\ \A q \in Requests \ {r} : req'[q] = req[q]
         /\ UNCHANGED <<caps, tokens>> \/ \E c \in Caps : Handed(r, c)
         /\ Aims(r) /\ Links(r) /\ Looks(r) /\ Learns(r) /\ Asks(r)
<1> USE FileNumbers, NoObjectFacts DEF Types
<1>0. /\ req[r] \in LocalTypes /\ \A k \in Keys : objects[k] \in Row
      /\ None \notin Slugs
  BY SharingAssumption
<1>i. Idle \in LocalTypes /\ Idle.o = NoObject /\ Idle.op = "idle"
  BY DEF Idle, Local, LocalTypes
<1>1. ASSUME NEW l \in LocalTypes, Step(r, l)
      PROVE  /\ req'[r] = l
             /\ req' \in [Requests -> LocalTypes] /\ \A q \in Requests \ {r} : req'[q] = req[q]
  BY <1>1 DEF Step
<1>2. CASE Authenticate(r)
  <2>1. PICK k \in Keys, op \in {"link", "download"} :
          Step(r, Local(op, k, None, NoObject, bucket = "public"))
    BY <1>2 DEF Authenticate
  <2> DEFINE l == Local(op, k, None, NoObject, bucket = "public")
  <2>2. l \in LocalTypes /\ l.o = NoObject /\ l.op \in {"link", "download"} /\ l.key \in Keys
    BY DEF Local, LocalTypes
  <2>3. Step(r, l)
    BY <2>1
  <2> HIDE DEF l
  <2>4. req'[r] = l /\ req' \in [Requests -> LocalTypes] /\ \A q \in Requests \ {r} : req'[q] = req[q]
    BY <1>1, <2>2, <2>3
  <2> QED BY <1>2, <2>2, <2>4 DEF Authenticate, Aims, Links, Looks, Learns, Asks, Under
<1>3. CASE GetObject(r)
  <2>1. CASE Step(r, Idle)
    BY <1>1, <1>3, <1>i, <2>1 DEF GetObject, Aims, Links, Looks, Learns, Asks, Under
  <2>2. CASE Step(r, [req[r] EXCEPT !.o = objects[req[r].key]]) /\ objects[req[r].key] # NoObject
    <3> DEFINE l == [req[r] EXCEPT !.o = objects[req[r].key]]
    <3>1. req[r].key \in Keys
      BY <1>3 DEF GetObject, Asked
    <3>2. l \in LocalTypes /\ l.o = objects[req[r].key] /\ l.op = req[r].op /\ l.key \in Keys
      BY <1>0, <3>1 DEF LocalTypes
    <3>3. Step(r, l)
      BY <2>2
    <3> HIDE DEF l
    <3>4. req'[r] = l /\ req' \in [Requests -> LocalTypes] /\ \A q \in Requests \ {r} : req'[q] = req[q]
      BY <1>1, <3>2, <3>3
    <3> QED BY <1>3, <2>2, <3>1, <3>2, <3>4 DEF GetObject, Aims, Links, Looks, Learns, Asks, Under, Mapped
  <2> QED BY <1>3, <2>1, <2>2 DEF GetObject
<1>4. CASE DownloadURL(r)
  <2>1. \E c \in Caps : Handed(r, c)
    <3>1. Under(r) /\ Hand(req[r].o, None)
      BY <1>4 DEF DownloadURL, Under
    <3>2. PICK c \in Caps : Gives(r, None, c)
      BY <3>1, HandFacts
    <3> QED BY <3>1, <3>2 DEF Handed, Gives
  <2> QED BY <1>1, <1>4, <1>i, <2>1 DEF DownloadURL, Aims, Links, Looks, Learns, Asks, Under
<1>5. CASE NewPublicLink(r)
  <2>1. \E c \in Caps : Handed(r, c)
    <3>1. Under(r) /\ Hand(req[r].o, None)
      BY <1>5 DEF NewPublicLink, Under
    <3>2. PICK c \in Caps : Gives(r, None, c)
      BY <3>1, HandFacts
    <3> QED BY <3>1, <3>2 DEF Handed, Gives
  <2>2. PICK s \in Slugs : /\ aim[s] = 0 /\ aim' = [aim EXCEPT ![s] = req[r].o.id]
                           /\ Step(r, [req[r] EXCEPT !.op = "insert", !.slug = s])
    BY <1>5 DEF NewPublicLink
  <2> DEFINE l == [req[r] EXCEPT !.op = "insert", !.slug = s]
  <2>3. l \in LocalTypes /\ l.o = req[r].o /\ l.op = "insert" /\ l.slug = s
    BY <1>0 DEF LocalTypes
  <2>4. Step(r, l)
    BY <2>2
  <2> HIDE DEF l
  <2>5. req'[r] = l /\ req' \in [Requests -> LocalTypes] /\ \A q \in Requests \ {r} : req'[q] = req[q]
    BY <1>1, <2>3, <2>4
  <2>6. aim'[s] = req[r].o.id
    BY <2>2
  <2> QED BY <1>5, <2>1, <2>2, <2>3, <2>5, <2>6 DEF NewPublicLink, Aims, Links, Looks, Learns, Asks, Under
<1>6. CASE CreatePublicLink(r)
  BY <1>1, <1>6, <1>i DEF CreatePublicLink, Aims, Links, Looks, Learns, Asks, Under
<1>7. CASE ResolvePublic(r)
  <2>1. UNCHANGED <<caps, tokens>> \/ \E c \in Caps : Handed(r, c)
    <3>1. CASE Hand(req[r].o, req[r].slug)
      <4>1. Under(r) /\ req[r].slug \in Slugs \cup {None} /\ req[r].op = "resolve"
        BY <1>7 DEF ResolvePublic, Aliases
      <4>2. PICK c \in Caps : Gives(r, req[r].slug, c)
        BY <3>1, <4>1, HandFacts
      <4> QED BY <4>1, <4>2 DEF Handed, Gives
    <3> QED BY <1>7, <3>1 DEF ResolvePublic
  <2> QED BY <1>1, <1>7, <1>i, <2>1 DEF ResolvePublic, Aims, Links, Looks, Learns, Asks, Under
<1>8. ASSUME NEW s \in Slugs, PublicObject(r, s)
      PROVE  /\ UNCHANGED <<bucket, objects, files, write, retired>>
             /\ req' \in [Requests -> LocalTypes] /\ \A q \in Requests \ {r} : req'[q] = req[q]
             /\ UNCHANGED <<caps, tokens>> \/ \E c \in Caps : Handed(r, c)
             /\ Aims(r) /\ Links(r) /\ Looks(r) /\ Learns(r) /\ Asks(r)
  <2>1. links[s] # NoLink /\ links[s].obj \in Files /\ Exists(links[s].obj)
    BY <1>8 DEF PublicObject, Resolvable, NoLink, Aliases
  <2>2. PICK k \in Keys : Mapped(k) /\ RowOf(links[s].obj) = objects[k] /\ objects[k].id = links[s].obj
    BY <2>1, RowFacts
  <2> DEFINE l == Local("resolve", None, s, objects[k], TRUE)
  <2>3. l \in LocalTypes /\ l.o = objects[k] /\ l.op = "resolve" /\ l.slug = s
    BY <1>0 DEF Local, LocalTypes
  <2>4. Step(r, l)
    BY <1>8, <2>2 DEF PublicObject
  <2> HIDE DEF l
  <2>5. req'[r] = l /\ req' \in [Requests -> LocalTypes] /\ \A q \in Requests \ {r} : req'[q] = req[q]
    BY <1>1, <2>3, <2>4
  <2> QED BY <1>8, <2>1, <2>2, <2>3, <2>5 DEF PublicObject, Aims, Links, Looks, Learns, Asks, Under, Mapped
<1> QED BY <1>2, <1>3, <1>4, <1>5, <1>6, <1>7, <1>8 DEF Shares

(* An alias that is revoked keeps its object. *)
LEMMA RevokedLinks ==
  ASSUME NEW l \in [obj : 0..MaxFiles, live : BOOLEAN]
  PROVE  /\ [l EXCEPT !.live = FALSE] \in [obj : 0..MaxFiles, live : BOOLEAN]
         /\ [l EXCEPT !.live = FALSE].obj = l.obj
         /\ l.live => l # NoLink
         /\ l = NoLink => [l EXCEPT !.live = FALSE] = NoLink
<1>1. [l EXCEPT !.live = FALSE] \in [obj : 0..MaxFiles, live : BOOLEAN]
  OBVIOUS
<1>2. [l EXCEPT !.live = FALSE].obj = l.obj
  OBVIOUS
<1>3. l.live => l # NoLink
  BY DEF NoLink
<1>4. l = NoLink => [l EXCEPT !.live = FALSE] = NoLink
  <2> SUFFICES ASSUME l = [obj |-> 0, live |-> FALSE]
               PROVE  [l EXCEPT !.live = FALSE] = [obj |-> 0, live |-> FALSE]
    BY DEF NoLink
  <2>1. [[obj |-> 0, live |-> FALSE] EXCEPT !.live = FALSE] = [obj |-> 0, live |-> FALSE]
    OBVIOUS
  <2> QED BY <2>1
<1> QED BY <1>1, <1>2, <1>3, <1>4

(* What administrators do to the rows. *)
LEMMA AdministerFrame ==
  ASSUME Types, Administers
  PROVE  /\ UNCHANGED <<caps, write, req, aim, retired>>
         /\ bucket' \in {"public", "private", "deleting", "gone"}
         /\ links' \in [Slugs -> [obj : 0..MaxFiles, live : BOOLEAN]]
         /\ \A s \in Slugs : links'[s] # NoLink => links[s] # NoLink /\ links'[s].obj = links[s].obj
         /\ \/ UNCHANGED <<objects, files, tokens>>
            \/ /\ objects' = [k \in Keys |-> NoObject] /\ files' = [f \in Files |-> 0]
               /\ links' = [s \in Slugs |-> NoLink] /\ tokens' = {}
               /\ \A k \in Keys : write[k] = Still
<1> USE FileNumbers DEF Types
<1>0. NoLink \in [obj : 0..MaxFiles, live : BOOLEAN]
  BY DEF NoLink
<1>1. ASSUME NEW s \in Slugs, RevokePublicLink(s)
      PROVE  /\ links' \in [Slugs -> [obj : 0..MaxFiles, live : BOOLEAN]]
             /\ \A u \in Slugs : links'[u] # NoLink => links[u] # NoLink /\ links'[u].obj = links[u].obj
  <2>1. /\ links[s] \in [obj : 0..MaxFiles, live : BOOLEAN] /\ links[s].live
        /\ links' = [links EXCEPT ![s] = [links[s] EXCEPT !.live = FALSE]]
    BY <1>1 DEF RevokePublicLink
  <2>2. /\ [links[s] EXCEPT !.live = FALSE] \in [obj : 0..MaxFiles, live : BOOLEAN]
        /\ [links[s] EXCEPT !.live = FALSE].obj = links[s].obj /\ links[s] # NoLink
    BY <2>1, RevokedLinks
  <2> QED BY <2>1, <2>2
<1>2. CASE BeginBucketDeletion
  <2>1. links' = [s \in Slugs |-> [links[s] EXCEPT !.live = FALSE]]
    BY <1>2 DEF BeginBucketDeletion
  <2>2. \A s \in Slugs : /\ links[s] \in [obj : 0..MaxFiles, live : BOOLEAN]
                         /\ [links[s] EXCEPT !.live = FALSE] \in [obj : 0..MaxFiles, live : BOOLEAN]
                         /\ [links[s] EXCEPT !.live = FALSE].obj = links[s].obj
                         /\ links[s] = NoLink => [links[s] EXCEPT !.live = FALSE] = NoLink
    BY RevokedLinks
  <2> QED BY <1>2, <2>1, <2>2 DEF BeginBucketDeletion
<1>3. CASE UpdateBucket
  BY <1>3 DEF UpdateBucket
<1>4. CASE FinishBucketDeletion
  BY <1>0, <1>4 DEF FinishBucketDeletion
<1> QED BY <1>1, <1>2, <1>3, <1>4 DEF Administers, RevokePublicLink

-----------------------------------------------------------------------------
(* The types. *)

LEMMA TypesInit == Init => Types /\ Asked
<1> SUFFICES ASSUME Init PROVE Types /\ Asked
  OBVIOUS
<1>1. Still \in WriteTypes
  BY FileNumbers DEF Still, WriteTypes
<1>2. Idle \in LocalTypes /\ Idle.o = NoObject /\ Idle.op = "idle"
  BY NoObjectFacts DEF Idle, Local, LocalTypes
<1>3. NoLink \in [obj : 0..MaxFiles, live : BOOLEAN]
  BY FileNumbers DEF NoLink
<1> QED BY <1>1, <1>2, <1>3, FileNumbers, NoObjectFacts, SharingAssumption
        DEF Init, Types, Asked, Mapped, Under

LEMMA LinksStep ==
  ASSUME Types, NEW k \in Keys, Writes(k)
  PROVE  /\ links' \in [Slugs -> [obj : 0..MaxFiles, live : BOOLEAN]]
         /\ tokens' \subseteq tokens /\ retired' \subseteq retired \cup write[k].seen
         /\ \A s \in Slugs : links'[s] # NoLink => links'[s] = links[s]
<1>1. NoLink \in [obj : 0..MaxFiles, live : BOOLEAN]
  BY FileNumbers DEF NoLink
<1>2. CASE DeleteObject(k)
  BY <1>1, <1>2 DEF DeleteObject, Types
<1> QED BY <1>2 DEF Writes, Types, CommitUpload, CommitDeleteOld, DeletePhysical, RotateCopy, RotateDelete,
             RotatePhysicalKey, RotateRestore, GiveUp

LEMMA TypesStep == IInv /\ [Next]_vars => Types' /\ Asked'
<1> SUFFICES ASSUME IInv, [Next]_vars PROVE Types' /\ Asked'
  OBVIOUS
<1>0. Types /\ Asked /\ Writers /\ Aliases
  BY DEF IInv
<1>1. CASE UNCHANGED vars
  BY <1>0, <1>1 DEF vars, Types, Asked, Mapped, Under, WriteTypes
<1>2. ASSUME NEW k \in Keys, Writes(k), UNCHANGED relayed PROVE Types' /\ Asked'
  <2>1. /\ UNCHANGED <<bucket, caps, req, aim>>
        /\ \A l \in Keys \ {k} : objects'[l] = objects[l] /\ write'[l] = write[l]
        /\ write' \in [Keys -> WriteTypes] /\ objects' \in [Keys -> Row]
        /\ files' \in [Files -> 0..MaxFiles]
        /\ objects'[k] # NoObject => objects'[k].id \in Files /\ objects'[k].phys \in Files
    BY <1>0, <1>2, WriteFrame
  <2>2. /\ links' \in [Slugs -> [obj : 0..MaxFiles, live : BOOLEAN]]
        /\ tokens' \subseteq tokens /\ retired' \subseteq retired \cup write[k].seen
    BY <1>0, <1>2, LinksStep
  <2>3. write[k].seen \subseteq caps
    BY <1>0 DEF Types, WriteTypes
  <2>4. WriteTypes' = WriteTypes
    BY <2>1 DEF WriteTypes
  <2>5. \A l \in Keys : Mapped(l)' => objects'[l].id \in Files /\ objects'[l].phys \in Files
    BY <1>0, <2>1 DEF Types, Mapped
  <2> QED BY <1>0, <1>2, <2>1, <2>2, <2>3, <2>4, <2>5 DEF Types, Asked, Under
<1>3. ASSUME NEW r \in Requests, Shares(r), UNCHANGED relayed PROVE Types' /\ Asked'
  <2>1. /\ UNCHANGED <<bucket, objects, files, write, retired>>
        /\ req' \in [Requests -> LocalTypes] /\ \A q \in Requests \ {r} : req'[q] = req[q]
        /\ UNCHANGED <<caps, tokens>> \/ \E c \in Caps : Handed(r, c)
        /\ Aims(r) /\ Links(r) /\ Looks(r) /\ Asks(r)
    BY <1>0, <1>3, ShareFrame
  <2>2. caps \subseteq caps' /\ caps' \subseteq Caps /\ tokens' \subseteq caps'
    BY <1>0, <2>1 DEF Types, Handed, Gives
  <2>3. write' \in [Keys -> WriteTypes']
    BY <1>0, <2>1, <2>2 DEF Types, WriteTypes
  <2>4. aim' \in [Slugs -> 0..MaxFiles]
    BY <1>0, <2>1, FileNumbers DEF Types, Aims
  <2>5. links' \in [Slugs -> [obj : 0..MaxFiles, live : BOOLEAN]]
    <3>1. CASE UNCHANGED links
      BY <1>0, <3>1 DEF Types
    <3>2. CASE /\ req[r].op = "insert"
               /\ links' = [links EXCEPT ![req[r].slug] = [obj |-> req[r].o.id, live |-> TRUE]]
      <4>1. Under(r)
        BY <1>0, <3>2 DEF Aliases
      <4>2. [obj |-> req[r].o.id, live |-> TRUE] \in [obj : 0..MaxFiles, live : BOOLEAN]
        BY <1>0, <4>1, FileNumbers DEF Types
      <4> QED BY <1>0, <3>2, <4>2 DEF Types
    <3> QED BY <2>1, <3>1, <3>2 DEF Links
  <2>6. \A q \in Requests : Under(q)' => req'[q].o.id \in Files /\ req'[q].o.phys \in Files
    <3>1. Under(r)' => req'[r].o.id \in Files /\ req'[r].o.phys \in Files
      BY <1>0, <2>1 DEF Types, Looks, Mapped
    <3> QED BY <1>0, <2>1, <3>1 DEF Types, Under
  <2>7. Asked'
    BY <1>0, <2>1 DEF Asked, Asks
  <2>8. retired' \subseteq caps'
    BY <1>0, <2>1, <2>2 DEF Types
  <2>9. \A l \in Keys : Mapped(l)' => objects'[l].id \in Files /\ objects'[l].phys \in Files
    BY <1>0, <2>1 DEF Types, Mapped
  <2> QED BY <1>0, <1>3, <2>1, <2>2, <2>3, <2>4, <2>5, <2>6, <2>7, <2>8, <2>9 DEF Types
<1>4. ASSUME Administers, UNCHANGED relayed PROVE Types' /\ Asked'
  BY <1>0, <1>4, AdministerFrame, FileNumbers, NoObjectFacts DEF Types, Asked, Mapped, Under, WriteTypes
<1> QED BY <1>1, <1>2, <1>3, <1>4, NextCases

-----------------------------------------------------------------------------
(* What the writers know of their key. *)
LEMMA WritersStep == IInv /\ [Next]_vars => Writers'
<1> SUFFICES ASSUME IInv, [Next]_vars PROVE Writers'
  OBVIOUS
<1>0. Types /\ Asked /\ Writers /\ Aliases /\ Alone
  BY DEF IInv
<1> DEFINE Knows(k) ==
    /\ write[k].op = "replace" => write[k].old \in Files
    /\ write[k].op \in {"delete", "copied", "deleted"} =>
         Mapped(k) /\ write[k].old = objects[k].phys
    /\ Rotating(k) => write[k].next \in Files
    /\ write[k].op \in {"delete", "deleted"} => files[write[k].old] = 0
    /\ \A c \in write[k].seen : c.phys = write[k].old
    /\ write[k].op \in {"none", "replace"} => write[k].seen = {}
<1>s. \A k \in Keys : write'[k] = Still => Knows(k)'
  BY DEF Still, Rotating
<1>1. CASE UNCHANGED vars
  BY <1>0, <1>1 DEF vars, Writers, Mapped, Rotating
<1>2. ASSUME NEW k \in Keys, Writes(k) PROVE Writers'
  <2>0. write[k] \in WriteTypes /\ Knows(k)
    BY <1>0 DEF Types, Writers
  <2>1. /\ UNCHANGED <<bucket, caps, req, aim>>
        /\ \A l \in Keys \ {k} : objects'[l] = objects[l] /\ write'[l] = write[l]
        /\ write' \in [Keys -> WriteTypes]
    BY <1>0, <1>2, WriteFrame
  <2>2. ASSUME NEW l \in Keys \ {k} PROVE Knows(l)'
    <3>1. Knows(l) /\ objects'[l] = objects[l] /\ write'[l] = write[l]
      BY <1>0, <2>1 DEF Writers
    <3>2. write[l].op \in {"delete", "deleted"} => files'[write[l].old] = 0
      <4> SUFFICES ASSUME write[l].op \in {"delete", "deleted"} PROVE files'[write[l].old] = 0
        OBVIOUS
      <4>1. /\ Mapped(l) /\ write[l].old = objects[l].phys /\ files[write[l].old] = 0
            /\ write[l].old \in Files
        BY <1>0, <3>1 DEF Types
      <4>2. \A f : Fresh(f) => f # write[l].old
        BY FreshFacts
      <4>3. RotateRestore(k) => write[k].old # write[l].old /\ write[k].old \in Files /\ write[k].next \in Files
        BY <1>0, <2>0, <4>1 DEF RotateRestore, Alone, Types, Mapped, Rotating
      <4> QED BY <1>0, <1>2, <4>1, <4>2, <4>3
              DEF Types, Writes, CommitUpload, CommitDeleteOld, DeletePhysical, DeleteObject, RotateCopy,
                  RotateDelete, RotatePhysicalKey, RotateRestore, GiveUp
    <3> QED BY <3>1, <3>2 DEF Mapped, Rotating
  <2>3. Knows(k)'
    <3>1. CASE write'[k] = Still
      BY <3>1, <1>s
    <3>2. CASE CommitUpload(k)
      <4>1. CASE objects[k] # NoObject
        <5>1. write'[k] = [Still EXCEPT !.op = "replace", !.old = objects[k].phys]
          BY <1>0, <3>2, <4>1 DEF CommitUpload, Types
        <5>2. write'[k].op = "replace" /\ write'[k].old = objects[k].phys /\ write'[k].seen = {}
          BY <5>1 DEF Still
        <5> QED BY <1>0, <4>1, <5>2 DEF Types, Mapped, Rotating
      <4>2. CASE objects[k] = NoObject
        BY <1>0, <1>s, <3>2, <4>2 DEF CommitUpload, Types
      <4> QED BY <4>1, <4>2
    <3>3. ASSUME NEW op \in {"delete", "copied"}, NEW next, Begin(k, op, next), objects' = objects,
                 op = "copied" => next \in Files, op = "delete" => files'[objects[k].phys] = 0
          PROVE  Knows(k)'
      <4>1. write'[k] = [op |-> op, next |-> next, old |-> objects[k].phys, seen |-> Naming(k)]
        BY <1>0, <3>3 DEF Begin, Types
      <4>2. /\ write'[k].op = op /\ write'[k].next = next /\ write'[k].old = objects[k].phys
            /\ \A c \in write'[k].seen : c.phys = objects[k].phys
        BY <4>1 DEF Naming
      <4>3. Mapped(k)' /\ objects'[k].phys = objects[k].phys
        BY <3>3 DEF Begin, Mapped
      <4> QED BY <3>3, <4>2, <4>3 DEF Rotating
    <3>4. CASE DeletePhysical(k)
      <4>1. Begin(k, "delete", 0) /\ objects' = objects
        BY <3>4 DEF DeletePhysical
      <4>2. files'[objects[k].phys] = 0
        BY <1>0, <3>4, <4>1 DEF DeletePhysical, Begin, Types, Mapped
      <4> QED BY <3>3, <4>1, <4>2
    <3>5. CASE RotateCopy(k)
      <4>1. PICK f \in Files : Begin(k, "copied", f)
        BY <3>5 DEF RotateCopy
      <4>2. objects' = objects
        BY <3>5 DEF RotateCopy
      <4> QED BY <3>3, <4>1, <4>2
    <3>6. CASE RotateDelete(k)
      <4>1. /\ write'[k] = [write[k] EXCEPT !.op = "deleted"] /\ objects' = objects
            /\ files' = [files EXCEPT ![write[k].old] = 0]
        BY <1>0, <3>6 DEF RotateDelete, Types
      <4>2. /\ write'[k].op = "deleted" /\ write'[k].next = write[k].next
            /\ write'[k].old = write[k].old /\ write'[k].seen = write[k].seen
        BY <2>0, <4>1 DEF WriteTypes
      <4>3. write[k].op = "copied" /\ Mapped(k) /\ write[k].old = objects[k].phys /\ write[k].old \in Files
        BY <1>0, <2>0, <3>6 DEF RotateDelete, Types
      <4>4. files'[write[k].old] = 0
        BY <1>0, <4>1, <4>3 DEF Types
      <4> QED BY <2>0, <4>1, <4>2, <4>3, <4>4 DEF Mapped, Rotating
    <3> QED BY <1>0, <1>2, <3>1, <3>2, <3>4, <3>5, <3>6
            DEF Writes, Types, CommitDeleteOld, DeleteObject, RotatePhysicalKey, RotateRestore, GiveUp
  <2> HIDE DEF Knows
  <2>4. \A l \in Keys : Knows(l)'
    BY <2>2, <2>3
  <2> QED BY <2>4 DEF Writers, Knows
<1>3. ASSUME NEW r \in Requests, Shares(r) PROVE Writers'
  <2>1. UNCHANGED <<objects, files, write>>
    BY <1>0, <1>3, ShareFrame
  <2> QED BY <1>0, <2>1 DEF Writers, Mapped, Rotating
<1>4. ASSUME Administers PROVE Writers'
  <2>1. CASE UNCHANGED <<objects, files>>
    BY <1>0, <1>4, <2>1, AdministerFrame DEF Writers, Mapped, Rotating
  <2>2. CASE \A k \in Keys : write[k] = Still
    BY <1>0, <1>4, <1>s, <2>2, AdministerFrame DEF Writers
  <2> QED BY <1>0, <1>4, <2>1, <2>2, AdministerFrame
<1> QED BY <1>1, <1>2, <1>3, <1>4, NextCases

-----------------------------------------------------------------------------
(* The foreign keys and the aliases. *)

(* An id that names a row goes on naming one, unless the row is deleted.    *)
LEMMA ExistsStays ==
  ASSUME IInv, NEW k \in Keys, Writes(k), NEW id \in Files, Exists(id)
  PROVE  Exists(id)' \/ (DeleteObject(k) /\ objects[k].id = id)
<1>0. Types /\ Writers
  BY DEF IInv
<1>1. PICK l \in Keys : objects[l].id = id
  BY DEF Exists
<1>2. /\ \A m \in Keys \ {k} : objects'[m] = objects[m]
      /\ objects'[k] # NoObject => objects'[k].id \in Files /\ objects'[k].phys \in Files
  BY <1>0, WriteFrame
<1>3. CASE l # k
  BY <1>1, <1>2, <1>3 DEF Exists
<1>4. CASE l = k /\ ~DeleteObject(k)
  <2>1. objects[k] # NoObject /\ objects[k] \in Row
    BY <1>0, <1>1, <1>4, FileNumbers, NoObjectFacts DEF Types
  <2>2. objects'[k].id = id
    BY <1>0, <1>1, <1>4, <2>1
    DEF Writes, Types, Row, CommitUpload, NewId, CommitDeleteOld, DeletePhysical, RotateCopy, RotateDelete,
        RotatePhysicalKey, RotateRestore, GiveUp
  <2> QED BY <2>2 DEF Exists
<1> QED BY <1>1, <1>3, <1>4

LEMMA AliasesStep == IInv /\ [Next]_vars => Aliases'
<1> SUFFICES ASSUME IInv, [Next]_vars PROVE Aliases'
  OBVIOUS
<1>0. Types /\ Asked /\ Writers /\ Aliases
  BY DEF IInv
<1>n. NoLink.obj = 0 /\ 0 \notin Files /\ None \notin Slugs
  BY FileNumbers, SharingAssumption DEF NoLink
<1>1. CASE UNCHANGED vars
  BY <1>0, <1>1 DEF vars, Aliases, Exists, Under
<1>2. ASSUME NEW k \in Keys, Writes(k) PROVE Aliases'
  <2>1. UNCHANGED <<bucket, caps, req, aim>>
    BY <1>0, <1>2, WriteFrame
  <2>2. tokens' \subseteq tokens /\ \A s \in Slugs : links'[s] # NoLink => links'[s] = links[s]
    BY <1>0, <1>2, LinksStep
  <2>3. ASSUME NEW s \in Slugs, links'[s] # NoLink
        PROVE  \E l \in Keys : objects'[l].id = links'[s].obj
    <3>1. links[s].obj \in Files /\ Exists(links[s].obj) /\ links'[s] = links[s]
      BY <1>0, <2>2, <2>3 DEF Aliases
    <3>2. PICK id \in Files : id = links[s].obj
      BY <3>1
    <3>3. ~(DeleteObject(k) /\ objects[k].id = id)
      BY <1>n, <2>3, <3>1, <3>2 DEF DeleteObject
    <3>4. Exists(id)'
      BY <1>2, <3>1, <3>2, <3>3, ExistsStays
    <3> QED BY <3>1, <3>2, <3>4 DEF Exists
  <2>4. \A t \in tokens' : Exists(t.obj)'
    <3> SUFFICES ASSUME NEW t \in tokens' PROVE Exists(t.obj)'
      OBVIOUS
    <3>1. t \in tokens /\ t.obj \in Files /\ Exists(t.obj)
      BY <1>0, <2>2 DEF Types, Caps, Aliases
    <3>2. ~(DeleteObject(k) /\ objects[k].id = t.obj)
      BY DEF DeleteObject
    <3> QED BY <1>2, <3>1, <3>2, ExistsStays
  <2> QED BY <1>0, <2>1, <2>2, <2>3, <2>4 DEF Aliases, Under, Exists
<1>3. ASSUME NEW r \in Requests, Shares(r) PROVE Aliases'
  <2>1. /\ UNCHANGED <<bucket, objects, files, write, retired>>
        /\ req' \in [Requests -> LocalTypes] /\ \A q \in Requests \ {r} : req'[q] = req[q]
        /\ UNCHANGED <<caps, tokens>> \/ \E c \in Caps : Handed(r, c)
        /\ Aims(r) /\ Links(r) /\ Looks(r) /\ Learns(r)
    BY <1>0, <1>3, ShareFrame
  <2>2. \A s \in Slugs : aim'[s] = aim[s] \/ aim[s] = 0
    BY <1>0, <2>1 DEF Aims, Types
  <2>3. \A id : Exists(id)' <=> Exists(id)
    BY <2>1 DEF Exists
  <2>4. ASSUME NEW s \in Slugs, links'[s] # NoLink
        PROVE  links'[s].obj \in Files /\ links'[s].obj = aim'[s] /\ Exists(links'[s].obj)
    <3>1. CASE links'[s] = links[s]
      BY <1>0, <1>n, <2>2, <2>4, <3>1 DEF Aliases
    <3>2. CASE /\ req[r].op = "insert" /\ Exists(req[r].o.id) /\ s = req[r].slug
               /\ links' = [links EXCEPT ![req[r].slug] = [obj |-> req[r].o.id, live |-> TRUE]]
      <4>1. Under(r) /\ aim[s] = req[r].o.id /\ req[r].o.id \in Files
        BY <1>0, <3>2 DEF Aliases, Types
      <4>2. links'[s] = [obj |-> req[r].o.id, live |-> TRUE]
        BY <1>0, <3>2 DEF Types
      <4>3. links'[s].obj = req[r].o.id
        BY <4>2
      <4> QED BY <1>n, <2>2, <3>2, <4>1, <4>3
    <3> QED BY <1>0, <2>1, <3>1, <3>2 DEF Links, Types
  <2>5. ASSUME NEW q \in Requests, req'[q].op \in {"insert", "resolve"}
        PROVE  Under(q)' /\ req'[q].slug \in Slugs /\ aim'[req'[q].slug] = req'[q].o.id
    <3>1. CASE q = r
      <4>1. CASE aim'[req'[r].slug] = req'[r].o.id
        BY <2>1, <2>5, <3>1, <4>1 DEF Learns
      <4>2. CASE /\ links[req'[r].slug] # NoLink /\ UNCHANGED aim
                 /\ req'[r].o.id = links[req'[r].slug].obj
        BY <1>0, <2>1, <2>5, <3>1, <4>2 DEF Learns, Aliases
      <4> QED BY <2>1, <2>5, <3>1, <4>1, <4>2 DEF Learns
    <3>2. CASE q # r
      <4>1. req'[q] = req[q] /\ Under(q) /\ req[q].slug \in Slugs /\ aim[req[q].slug] = req[q].o.id
        BY <1>0, <2>1, <2>5, <3>2 DEF Aliases
      <4>2. req[q].o.id # 0
        BY <1>0, <1>n, <4>1 DEF Types
      <4> QED BY <2>2, <4>1, <4>2 DEF Under
    <3> QED BY <3>1, <3>2
  <2>6. ASSUME NEW c \in caps', c.via # None PROVE aim'[c.via] = c.obj
    <3>0. \A d \in caps : d.via \in Slugs \cup {None} /\ d.obj \in Files
      BY <1>0 DEF Types, Caps
    <3>1. CASE c \in caps
      BY <1>0, <1>n, <2>2, <2>6, <3>0, <3>1 DEF Aliases
    <3>2. CASE Handed(r, c)
      <4>1. Under(r) /\ c.obj = req[r].o.id /\ req[r].op = "resolve" /\ c.via = req[r].slug
        BY <2>6, <3>2 DEF Handed, Gives
      <4>2. req[r].o.id \in Files /\ req[r].slug \in Slugs /\ aim[req[r].slug] = req[r].o.id
        BY <1>0, <4>1 DEF Types, Aliases
      <4> QED BY <1>n, <2>2, <4>1, <4>2
    <3> QED BY <2>1, <2>6, <3>1, <3>2 DEF Handed, Gives
  <2>7. ASSUME NEW t \in tokens' PROVE Exists(t.obj)
    BY <1>0, <2>1, <2>7 DEF Handed, Gives, Aliases
  <2> QED BY <2>3, <2>4, <2>5, <2>6, <2>7 DEF Aliases
<1>4. ASSUME Administers PROVE Aliases'
  BY <1>0, <1>4, AdministerFrame DEF Aliases, Under, Exists
<1> QED BY <1>1, <1>2, <1>3, <1>4, NextCases

-----------------------------------------------------------------------------
(* Whose bytes a physical key holds. *)

(* A writer draws a physical key, for the row or for a rotation, and writes *)
(* the object's bytes to it.                                                *)
FreshRef(k) ==
  \E f \in Files, id \in Files, v \in 0..MaxFiles :
    /\ Fresh(f) /\ Refs' \subseteq Refs \cup {<<id, f>>}
    /\ v \in {0, id} /\ files' = [files EXCEPT ![f] = v]
    /\ UNCHANGED retired
    /\ \A l \in Keys : objects'[l] = objects[l] \/ objects'[l] = [id |-> id, phys |-> f]

LEMMA SameRefs ==
  ASSUME UNCHANGED <<req, caps>>, NEW S,
         \A k \in Keys : Mapped(k)' => <<objects'[k].id, objects'[k].phys>> \in S,
         \A k \in Keys : Rotating(k)' => <<objects'[k].id, write'[k].next>> \in S,
         Refs \subseteq S
  PROVE  Refs' \subseteq S
BY DEF Refs, Under

LEMMA KnownRefs ==
  /\ \A k \in Keys : Mapped(k) => <<objects[k].id, objects[k].phys>> \in Refs
  /\ \A k \in Keys : Rotating(k) => <<objects[k].id, write[k].next>> \in Refs
  /\ \A r \in Requests : Under(r) => <<req[r].o.id, req[r].o.phys>> \in Refs
  /\ \A c \in caps : <<c.obj, c.phys>> \in Refs
BY DEF Refs

LEMMA RefTypes == IInv => \A a \in Refs : a[1] \in Files /\ a[2] \in Files
<1> SUFFICES ASSUME IInv PROVE \A a \in Refs : a[1] \in Files /\ a[2] \in Files
  OBVIOUS
<1>1. \A k \in Keys : Rotating(k) => Mapped(k) /\ write[k].next \in Files
  BY DEF IInv, Writers, Rotating
<1> QED BY <1>1 DEF Refs, IInv, Types, Caps

LEMMA FreshUnknown ==
  ASSUME NEW f, Fresh(f) PROVE \A a \in Refs : a[2] # f
BY FreshFacts DEF Refs

(* How a writer changes what is known and what is stored. *)
LEMMA WriteRefs ==
  ASSUME IInv, NEW k \in Keys, Writes(k)
  PROVE  \/ /\ Refs' \subseteq Refs
            /\ \A f \in Files : files'[f] \in {files[f], 0}
         \/ FreshRef(k)
         \/ /\ Refs' \subseteq Refs /\ Mapped(k) /\ write[k].op = "deleted"
            /\ files' = [files EXCEPT ![objects[k].phys] = files[write[k].next], ![write[k].next] = 0]
<1>0. Types /\ Writers
  BY DEF IInv
<1>1. /\ UNCHANGED <<bucket, caps, req, aim>>
      /\ \A l \in Keys \ {k} : objects'[l] = objects[l] /\ write'[l] = write[l]
      /\ write' \in [Keys -> WriteTypes] /\ objects' \in [Keys -> Row]
  BY <1>0, WriteFrame
<1>k. write[k] \in WriteTypes /\ objects[k] \in Row
  BY <1>0 DEF Types
<1>s. Still.op = "none"
  BY DEF Still
<1>2. ASSUME objects'[k] = NoObject \/ (Mapped(k) /\ objects'[k] = objects[k]),
             Rotating(k)' => Rotating(k) /\ write'[k].next = write[k].next /\ objects'[k] = objects[k]
      PROVE  Refs' \subseteq Refs
  BY <1>1, <1>2, SameRefs, KnownRefs DEF Mapped, Rotating
<1>3. CASE CommitUpload(k)
  <2>1. PICK f \in Files : /\ Fresh(f) /\ files' = [files EXCEPT ![f] = NewId(k, f)]
                           /\ objects' = [objects EXCEPT ![k] = [id |-> NewId(k, f), phys |-> f]]
                           /\ write' = [write EXCEPT ![k] = IF objects[k] = NoObject THEN Still
                                          ELSE [Still EXCEPT !.op = "replace", !.old = objects[k].phys]]
    BY <1>3 DEF CommitUpload
  <2> DEFINE id == NewId(k, f)
  <2>2. id \in Files
    BY <1>0 DEF NewId, Types, Mapped
  <2>3. objects'[k] = [id |-> id, phys |-> f] /\ ~Rotating(k)'
    BY <1>0, <1>s, <2>1 DEF Types, Rotating, Still
  <2> HIDE DEF id
  <2>4. objects'[k].id = id /\ objects'[k].phys = f
    BY <2>3
  <2>5. Refs' \subseteq Refs \cup {<<id, f>>}
    <3>1. \A l \in Keys : Mapped(l)' => <<objects'[l].id, objects'[l].phys>> \in Refs \cup {<<id, f>>}
      BY <1>1, <2>4, KnownRefs DEF Mapped
    <3>2. \A l \in Keys : Rotating(l)' => <<objects'[l].id, write'[l].next>> \in Refs \cup {<<id, f>>}
      BY <1>1, <2>3, KnownRefs DEF Rotating
    <3> QED BY <1>1, <3>1, <3>2, SameRefs
  <2>6. id \in 0..MaxFiles
    BY <2>2, FileNumbers
  <2> QED BY <1>1, <1>3, <2>1, <2>2, <2>3, <2>5, <2>6 DEF FreshRef, CommitUpload, id
<1>4. CASE RotateCopy(k)
  <2>1. PICK f \in Files : /\ Fresh(f) /\ Begin(k, "copied", f)
                           /\ files' = [files EXCEPT ![f] = files[objects[k].phys]]
    BY <1>4 DEF RotateCopy
  <2> DEFINE id == objects[k].id
  <2>2. id \in Files /\ files[objects[k].phys] \in {0, id} /\ Mapped(k)
    BY <1>0, <2>1, KnownRefs DEF Begin, Types, Mapped, IInv, Filled
  <2>3. write'[k] = [op |-> "copied", next |-> f, old |-> objects[k].phys, seen |-> Naming(k)]
    BY <1>0, <2>1 DEF Begin, Types
  <2>4. write'[k].next = f
    BY <2>3
  <2>5. objects' = objects /\ UNCHANGED retired
    BY <1>4 DEF RotateCopy
  <2>6. Refs' \subseteq Refs \cup {<<id, f>>}
    <3>1. \A l \in Keys : Mapped(l)' => <<objects'[l].id, objects'[l].phys>> \in Refs \cup {<<id, f>>}
      BY <1>1, <2>5, KnownRefs DEF Mapped
    <3>2. \A l \in Keys : Rotating(l)' => <<objects'[l].id, write'[l].next>> \in Refs \cup {<<id, f>>}
      BY <1>1, <2>4, <2>5, KnownRefs DEF Rotating
    <3> QED BY <1>1, <3>1, <3>2, SameRefs
  <2>7. files[objects[k].phys] \in 0..MaxFiles
    BY <2>2, FileNumbers
  <2> QED BY <2>1, <2>2, <2>5, <2>6, <2>7 DEF FreshRef
<1>5. CASE RotatePhysicalKey(k)
  <2>1. /\ objects'[k] = [objects[k] EXCEPT !.phys = write[k].next] /\ write'[k] = Still
        /\ files' = files
    BY <1>0, <1>5 DEF RotatePhysicalKey, Types
  <2>2. objects'[k].id = objects[k].id /\ objects'[k].phys = write[k].next
    BY <1>k, <2>1 DEF Row
  <2>3. Rotating(k) /\ ~Rotating(k)'
    BY <1>5, <1>s, <2>1 DEF RotatePhysicalKey, Rotating
  <2>4. Refs' \subseteq Refs
    BY <1>1, <2>2, <2>3, SameRefs, KnownRefs DEF Mapped, Rotating
  <2> QED BY <2>1, <2>4
<1>6. CASE RotateRestore(k)
  <2>1. /\ objects' = objects /\ write'[k] = Still /\ Mapped(k) /\ write[k].old = objects[k].phys
        /\ write[k].op = "deleted"
    BY <1>0, <1>6 DEF RotateRestore, Types, Writers
  <2> QED BY <1>2, <1>6, <1>s, <2>1 DEF RotateRestore, Rotating
<1>7. CASE CommitDeleteOld(k) \/ RotateDelete(k) \/ DeletePhysical(k) \/ GiveUp(k)
  <2>1. /\ objects' = objects /\ \A f \in Files : files'[f] \in {files[f], 0}
    BY <1>0, <1>7 DEF CommitDeleteOld, RotateDelete, DeletePhysical, GiveUp, Types
  <2>2. Rotating(k)' => Rotating(k) /\ write'[k].next = write[k].next
    <3>1. CASE RotateDelete(k)
      <4>1. write'[k] = [write[k] EXCEPT !.op = "deleted"] /\ Rotating(k)
        BY <1>0, <3>1 DEF RotateDelete, Types, Rotating
      <4> QED BY <1>k, <4>1 DEF WriteTypes
    <3>2. CASE DeletePhysical(k)
      <4>1. write'[k] = [op |-> "delete", next |-> 0, old |-> objects[k].phys, seen |-> Naming(k)]
        BY <1>0, <3>2 DEF DeletePhysical, Begin, Types
      <4> QED BY <4>1 DEF Rotating
    <3> QED BY <1>0, <1>7, <1>s, <3>1, <3>2 DEF CommitDeleteOld, GiveUp, Types, Rotating
  <2>3. Refs' \subseteq Refs
    BY <1>1, <2>1, <2>2, SameRefs, KnownRefs DEF Mapped, Rotating
  <2> QED BY <2>1, <2>3
<1>8. CASE DeleteObject(k)
  <2>1. objects'[k] = NoObject /\ write'[k] = Still /\ files' = files
    BY <1>0, <1>8 DEF DeleteObject, Types
  <2> QED BY <1>2, <1>s, <2>1 DEF Rotating
<1> QED BY <1>3, <1>4, <1>5, <1>6, <1>7, <1>8 DEF Writes

(* Handlers and administrators learn of no physical key that was not known. *)
LEMMA ShareRefs ==
  ASSUME IInv, NEW r \in Requests, Shares(r)
  PROVE  Refs' \subseteq Refs /\ UNCHANGED <<objects, files, write, retired>>
<1>0. Types /\ Asked /\ Writers /\ Aliases
  BY DEF IInv
<1>1. /\ UNCHANGED <<bucket, objects, files, write, retired>>
      /\ \A q \in Requests \ {r} : req'[q] = req[q]
      /\ UNCHANGED <<caps, tokens>> \/ \E c \in Caps : Handed(r, c)
      /\ Looks(r)
  BY <1>0, ShareFrame
<1>2. \A c \in caps' : <<c.obj, c.phys>> \in Refs
  BY <1>1, KnownRefs DEF Handed, Gives
<1>3. \A q \in Requests : Under(q)' => <<req'[q].o.id, req'[q].o.phys>> \in Refs
  <2>1. Under(r)' => <<req'[r].o.id, req'[r].o.phys>> \in Refs
    BY <1>1, KnownRefs DEF Looks
  <2> QED BY <1>1, <2>1, KnownRefs DEF Under
<1> QED BY <1>1, <1>2, <1>3, KnownRefs DEF Refs, Mapped, Rotating

LEMMA AdministerRefs ==
  ASSUME IInv, Administers
  PROVE  Refs' \subseteq Refs /\ \A f \in Files : files'[f] \in {files[f], 0}
<1>0. Types
  BY DEF IInv
<1>1. UNCHANGED <<caps, write, req>>
  BY <1>0, AdministerFrame
<1>2. CASE UNCHANGED <<objects, files>>
  BY <1>1, <1>2 DEF Refs, Mapped, Under, Rotating
<1>3. CASE /\ objects' = [k \in Keys |-> NoObject] /\ files' = [f \in Files |-> 0]
           /\ \A k \in Keys : write[k] = Still
  <2>1. \A k \in Keys : ~Mapped(k)' /\ ~Rotating(k)'
    BY <1>1, <1>3 DEF Mapped, Rotating, Still
  <2> QED BY <1>1, <1>3, <2>1, SameRefs
<1> QED BY <1>0, <1>2, <1>3, AdministerFrame

LEMMA OwnedStep == IInv /\ [Next]_vars => Owned' /\ Filled'
<1> SUFFICES ASSUME IInv, [Next]_vars PROVE Owned' /\ Filled'
  OBVIOUS
<1>0. /\ Owned /\ Filled /\ \A a \in Refs : a[1] \in Files /\ a[2] \in Files
      /\ files \in [Files -> 0..MaxFiles]
  BY RefTypes DEF IInv, Types
<1>1. ASSUME Refs' \subseteq Refs PROVE Owned'
  BY <1>0, <1>1 DEF Owned
<1>2. ASSUME Refs' \subseteq Refs, \A f \in Files : files'[f] \in {files[f], 0} PROVE Filled'
  BY <1>0, <1>2 DEF Filled
<1>3. CASE UNCHANGED vars
  <2>1. Refs' = Refs
    BY <1>3 DEF vars, Refs, Mapped, Under, Rotating
  <2> QED BY <1>0, <1>1, <1>2, <1>3, <2>1 DEF vars
<1>4. ASSUME NEW k \in Keys, FreshRef(k) PROVE Owned' /\ Filled'
  <2>1. PICK f \in Files, id \in Files, v \in 0..MaxFiles :
          v \in {0, id} /\ Fresh(f) /\ Refs' \subseteq Refs \cup {<<id, f>>} /\ files' = [files EXCEPT ![f] = v]
    BY <1>4 DEF FreshRef
  <2>2. \A a \in Refs : a[2] # f
    BY <2>1, FreshUnknown
  <2>3. <<id, f>>[1] = id /\ <<id, f>>[2] = f
    OBVIOUS
  <2>4. Owned'
    BY <1>0, <2>1, <2>2, <2>3 DEF Owned
  <2>5. Filled'
    BY <1>0, <2>1, <2>2, <2>3 DEF Filled
  <2> QED BY <2>4, <2>5
<1>5. ASSUME NEW k \in Keys, Refs' \subseteq Refs, Mapped(k), write[k].op = "deleted",
             files' = [files EXCEPT ![objects[k].phys] = files[write[k].next], ![write[k].next] = 0]
      PROVE  Filled'
  <2>1. <<objects[k].id, objects[k].phys>> \in Refs /\ <<objects[k].id, write[k].next>> \in Refs
    BY <1>5, KnownRefs DEF Rotating
  <2>2. files[write[k].next] \in {0, objects[k].id}
    BY <1>0, <2>1 DEF Filled
  <2>3. \A a \in Refs : a[2] = objects[k].phys => a[1] = objects[k].id
    BY <1>0, <2>1 DEF Owned
  <2>4. \A f \in Files : files'[f] = IF f = write[k].next THEN 0
                                     ELSE IF f = objects[k].phys THEN files[write[k].next] ELSE files[f]
    BY <1>0, <1>5
  <2> QED BY <1>0, <1>5, <2>2, <2>3, <2>4 DEF Filled
<1>6. ASSUME NEW k \in Keys, Writes(k) PROVE Owned' /\ Filled'
  BY <1>1, <1>2, <1>4, <1>5, <1>6, WriteRefs
<1>7. ASSUME NEW r \in Requests, Shares(r) PROVE Owned' /\ Filled'
  BY <1>0, <1>1, <1>2, <1>7, ShareRefs
<1>8. ASSUME Administers PROVE Owned' /\ Filled'
  BY <1>1, <1>2, <1>8, AdministerRefs
<1> QED BY <1>3, <1>6, <1>7, <1>8, NextCases

-----------------------------------------------------------------------------
(* Who knows a physical key, and what was withdrawn. *)

(* The rows and the rotations after a writer's step: a physical key is drawn *)
(* for the row or for a rotation, or moves from the rotation to the row.     *)
Drawing(k) ==
  \E f : Fresh(f) /\ ~Rotating(k)' /\ objects'[k].phys = f
Copying(k) ==
  \E f : Fresh(f) /\ Mapped(k) /\ UNCHANGED objects /\ write'[k].next = f
Moving(k) ==
  Rotating(k) /\ Mapped(k) /\ ~Rotating(k)' /\ objects'[k].phys = write[k].next
Keeping(k) ==
  /\ Mapped(k)' => Mapped(k) /\ objects'[k] = objects[k]
  /\ Rotating(k)' => Rotating(k) /\ write'[k].next = write[k].next

LEMMA WriteMoves ==
  ASSUME IInv, NEW k \in Keys, Writes(k)
  PROVE  Drawing(k) \/ Copying(k) \/ Moving(k) \/ Keeping(k)
<1>0. Types /\ Writers
  BY DEF IInv
<1>k. write[k] \in WriteTypes /\ objects[k] \in Row
  BY <1>0 DEF Types
<1>s. Still.op = "none"
  BY DEF Still
<1>1. CASE CommitUpload(k)
  <2>1. PICK f \in Files : /\ Fresh(f)
                           /\ objects' = [objects EXCEPT ![k] = [id |-> NewId(k, f), phys |-> f]]
                           /\ write' = [write EXCEPT ![k] = IF objects[k] = NoObject THEN Still
                                          ELSE [Still EXCEPT !.op = "replace", !.old = objects[k].phys]]
    BY <1>1 DEF CommitUpload
  <2>2. objects'[k] = [id |-> NewId(k, f), phys |-> f] /\ ~Rotating(k)'
    BY <1>0, <1>s, <2>1 DEF Types, Rotating, Still
  <2>3. objects'[k].phys = f
    BY <2>2
  <2> QED BY <2>1, <2>2, <2>3 DEF Drawing
<1>2. CASE RotateCopy(k)
  <2>1. PICK f \in Files : Fresh(f) /\ Begin(k, "copied", f) /\ objects' = objects
    BY <1>2 DEF RotateCopy
  <2>2. write'[k] = [op |-> "copied", next |-> f, old |-> objects[k].phys, seen |-> Naming(k)]
    BY <1>0, <2>1 DEF Begin, Types
  <2>3. write'[k].next = f /\ Mapped(k)
    BY <2>1, <2>2 DEF Begin, Mapped
  <2> QED BY <2>1, <2>3 DEF Copying
<1>3. CASE RotatePhysicalKey(k)
  <2>1. /\ objects'[k] = [objects[k] EXCEPT !.phys = write[k].next] /\ write'[k] = Still
        /\ Rotating(k) /\ Mapped(k)
    BY <1>0, <1>3 DEF RotatePhysicalKey, Types, Writers, Rotating
  <2>2. objects'[k].phys = write[k].next /\ ~Rotating(k)'
    BY <1>k, <1>s, <2>1 DEF Row, Rotating
  <2> QED BY <2>1, <2>2 DEF Moving
<1>4. CASE RotateDelete(k)
  <2>1. write'[k] = [write[k] EXCEPT !.op = "deleted"] /\ Rotating(k) /\ objects' = objects
    BY <1>0, <1>4 DEF RotateDelete, Types, Rotating
  <2> QED BY <1>k, <2>1 DEF Keeping, Mapped, WriteTypes
<1>5. CASE DeletePhysical(k)
  <2>1. write'[k] = [op |-> "delete", next |-> 0, old |-> objects[k].phys, seen |-> Naming(k)]
        /\ objects' = objects
    BY <1>0, <1>5 DEF DeletePhysical, Begin, Types
  <2> QED BY <2>1 DEF Keeping, Mapped, Rotating
<1>6. CASE DeleteObject(k)
  <2>1. objects'[k] = NoObject /\ write'[k] = Still
    BY <1>0, <1>6 DEF DeleteObject, Types
  <2> QED BY <1>s, <2>1 DEF Keeping, Mapped, Rotating
<1>7. CASE CommitDeleteOld(k) \/ RotateRestore(k) \/ GiveUp(k)
  <2>1. objects' = objects /\ write'[k] = Still
    BY <1>0, <1>7 DEF CommitDeleteOld, RotateRestore, GiveUp, Types
  <2> QED BY <1>s, <2>1 DEF Keeping, Mapped, Rotating
<1> QED BY <1>1, <1>2, <1>3, <1>4, <1>5, <1>6, <1>7 DEF Writes

LEMMA AloneStep == IInv /\ [Next]_vars => Alone'
<1> SUFFICES ASSUME IInv, [Next]_vars PROVE Alone'
  OBVIOUS
<1>0. Types /\ Asked /\ Writers /\ Aliases /\ Alone
  BY DEF IInv
<1>1. CASE UNCHANGED vars
  BY <1>0, <1>1 DEF vars, Alone, Mapped, Under, Rotating
<1>2. ASSUME NEW k \in Keys, Writes(k) PROVE Alone'
  <2>1. /\ UNCHANGED <<caps, req>>
        /\ \A l \in Keys \ {k} : objects'[l] = objects[l] /\ write'[l] = write[l]
    BY <1>0, <1>2, WriteFrame
  <2>2. \A l \in Keys \ {k} : /\ Mapped(l)' <=> Mapped(l)
                              /\ Rotating(l)' <=> Rotating(l)
    BY <2>1 DEF Mapped, Rotating
  <2>3. \A r \in Requests : Under(r)' <=> Under(r)
    BY <2>1 DEF Under
  <2>4. CASE Drawing(k)
    <3>1. PICK f : Fresh(f) /\ ~Rotating(k)' /\ objects'[k].phys = f
      BY <2>4 DEF Drawing
    <3>2. \A l \in Keys : objects[l].phys # f /\ write[l].next # f
      BY <3>1, FreshFacts
    <3> QED BY <1>0, <2>1, <2>2, <2>3, <3>1, <3>2 DEF Alone
  <2>5. CASE Copying(k)
    <3>1. PICK f : Fresh(f) /\ write'[k].next = f
      BY <2>5 DEF Copying
    <3>2. /\ \A l \in Keys : objects[l].phys # f /\ write[l].next # f
          /\ \A r \in Requests : req[r].o.phys # f
          /\ \A c \in caps : c.phys # f
      BY <3>1, FreshFacts
    <3>3. UNCHANGED objects /\ \A l \in Keys : Mapped(l)' <=> Mapped(l)
      BY <2>5 DEF Copying, Mapped
    <3> QED BY <1>0, <2>1, <2>2, <2>3, <3>1, <3>2, <3>3 DEF Alone
  <2>6. CASE Moving(k)
    BY <1>0, <2>1, <2>2, <2>3, <2>6 DEF Alone, Moving
  <2>7. CASE Keeping(k)
    BY <1>0, <2>1, <2>2, <2>3, <2>7 DEF Alone, Keeping
  <2> QED BY <1>2, <2>4, <2>5, <2>6, <2>7, WriteMoves
<1>3. ASSUME NEW r \in Requests, Shares(r) PROVE Alone'
  <2>1. Refs' \subseteq Refs /\ UNCHANGED <<objects, files, write, retired>>
    BY <1>3, ShareRefs
  <2>2. \A l \in Keys : (Mapped(l)' <=> Mapped(l)) /\ (Rotating(l)' <=> Rotating(l))
    BY <2>1 DEF Mapped, Rotating
  <2>3. /\ \A q \in Requests \ {r} : req'[q] = req[q]
        /\ UNCHANGED <<caps, tokens>> \/ \E c \in Caps : Handed(r, c)
        /\ Looks(r)
    BY <1>0, <1>3, ShareFrame
  <2>4. ASSUME NEW k \in Keys, Rotating(k)
        PROVE  /\ \A q \in Requests : Under(q)' => req'[q].o.phys # write[k].next
               /\ \A c \in caps' : c.phys # write[k].next
    <3>1. Under(r)' => req'[r].o.phys # write[k].next
      BY <1>0, <2>3, <2>4 DEF Looks, Alone
    <3>2. \A q \in Requests \ {r} : Under(q)' => req'[q].o.phys # write[k].next
      BY <1>0, <2>3, <2>4 DEF Under, Alone
    <3>3. \A c \in caps' : c.phys # write[k].next
      BY <1>0, <2>3, <2>4 DEF Handed, Gives, Alone
    <3> QED BY <3>1, <3>2, <3>3
  <2> QED BY <1>0, <2>1, <2>2, <2>4 DEF Alone
<1>4. ASSUME Administers PROVE Alone'
  <2>1. UNCHANGED <<caps, write, req>>
    BY <1>0, <1>4, AdministerFrame
  <2>2. CASE UNCHANGED objects
    BY <1>0, <2>1, <2>2 DEF Alone, Mapped, Under, Rotating
  <2>3. CASE objects' = [k \in Keys |-> NoObject] /\ \A k \in Keys : write[k] = Still
    BY <1>0, <2>1, <2>3 DEF Alone, Mapped, Under, Rotating, Still
  <2> QED BY <1>0, <1>4, <2>2, <2>3, AdministerFrame
<1> QED BY <1>1, <1>2, <1>3, <1>4, NextCases

LEMMA WithdrawnStep == IInv /\ [Next]_vars => Withdrawn'
<1> SUFFICES ASSUME IInv, [Next]_vars PROVE Withdrawn'
  OBVIOUS
<1>0. Types /\ Asked /\ Writers /\ Aliases /\ Alone /\ Withdrawn
  BY DEF IInv
<1>c. retired \subseteq caps /\ \A c \in caps : c.phys \in Files
  BY <1>0 DEF Types, Caps
<1>1. CASE UNCHANGED vars
  BY <1>0, <1>1 DEF vars, Withdrawn, Mapped
<1>2. ASSUME NEW k \in Keys, Writes(k) PROVE Withdrawn'
  <2>1. \A l \in Keys \ {k} : objects'[l] = objects[l]
    BY <1>0, <1>2, WriteFrame
  <2>2. \A l \in Keys \ {k} : Mapped(l)' <=> Mapped(l)
    BY <2>1 DEF Mapped
  <2>3. retired' \subseteq retired \cup write[k].seen
    BY <1>0, <1>2, LinksStep
  <2>w. write[k] \in WriteTypes /\ write[k].seen \subseteq caps
    BY <1>0 DEF Types, WriteTypes
  (* What was retired before: its key is not written again, nor mapped. *)
  <2>4. ASSUME NEW c \in retired
        PROVE  files'[c.phys] = 0 /\ \A l \in Keys : Mapped(l)' => objects'[l].phys # c.phys
    <3>1. /\ c \in caps /\ c.phys \in Files /\ files[c.phys] = 0
          /\ \A l \in Keys : Mapped(l) => objects[l].phys # c.phys
      BY <1>0, <1>c DEF Withdrawn
    <3>2. \A f : Fresh(f) => f # c.phys
      BY <3>1, FreshFacts
    <3>3. files'[c.phys] = 0
      <4>1. FreshRef(k) => files'[c.phys] = files[c.phys]
        BY <1>0, <3>1, <3>2 DEF FreshRef, Types
      <4>2. Mapped(k) /\ files' = [files EXCEPT ![objects[k].phys] = files[write[k].next],
                                                ![write[k].next] = 0]
              => files'[c.phys] = 0
        BY <1>0, <3>1 DEF Types
      <4> QED BY <1>2, <3>1, <4>1, <4>2, WriteRefs
    <3>4. Mapped(k)' => objects'[k].phys # c.phys
      <4>1. Drawing(k) => objects'[k].phys # c.phys
        BY <3>2 DEF Drawing
      <4>2. Copying(k) => objects'[k].phys # c.phys
        BY <3>1 DEF Copying
      <4>3. Moving(k) => objects'[k].phys # c.phys
        BY <1>0, <3>1 DEF Moving, Alone
      <4>4. Keeping(k) /\ Mapped(k)' => objects'[k].phys # c.phys
        BY <3>1 DEF Keeping
      <4> QED BY <1>2, <4>1, <4>2, <4>3, <4>4, WriteMoves
    <3> QED BY <2>1, <2>2, <3>1, <3>3, <3>4
  (* What a delete or a rotation retires: it has deleted the key it names. *)
  <2>5. ASSUME NEW c \in write[k].seen, write[k].op \in {"delete", "deleted"}, files' = files,
               Mapped(k)' => objects'[k].phys # write[k].old
        PROVE  files'[c.phys] = 0 /\ \A l \in Keys : Mapped(l)' => objects'[l].phys # c.phys
    <3>1. /\ c.phys = write[k].old /\ files[write[k].old] = 0 /\ Mapped(k)
          /\ write[k].old = objects[k].phys
      BY <1>0, <2>5 DEF Writers
    <3>2. \A l \in Keys \ {k} : Mapped(l)' => objects'[l].phys # c.phys
      BY <1>0, <2>1, <2>2, <3>1 DEF Alone
    <3> QED BY <2>5, <3>1, <3>2
  <2>6. CASE DeleteObject(k)
    <3>1. write[k].op = "delete" /\ files' = files /\ ~Mapped(k)'
      BY <1>0, <2>6 DEF DeleteObject, Types, Mapped
    <3> QED BY <2>3, <2>4, <2>5, <3>1 DEF Withdrawn
  <2>7. CASE RotatePhysicalKey(k)
    <3>1. /\ write[k].op = "deleted" /\ files' = files
          /\ objects'[k] = [objects[k] EXCEPT !.phys = write[k].next] /\ objects[k] \in Row
      BY <1>0, <2>7 DEF RotatePhysicalKey, Types
    <3>2. objects'[k].phys = write[k].next
      BY <3>1 DEF Row
    <3>3. write[k].next # write[k].old
      BY <1>0, <3>1 DEF Writers, Alone, Rotating
    <3> QED BY <2>3, <2>4, <2>5, <3>1, <3>2, <3>3 DEF Withdrawn
  <2>8. CASE UNCHANGED retired
    BY <2>4, <2>8 DEF Withdrawn
  <2> QED BY <1>2, <2>6, <2>7, <2>8
          DEF Writes, CommitUpload, CommitDeleteOld, DeletePhysical, RotateCopy, RotateDelete,
              RotateRestore, GiveUp
<1>3. ASSUME NEW r \in Requests, Shares(r) PROVE Withdrawn'
  BY <1>0, <1>3, ShareRefs DEF Withdrawn, Mapped
<1>4. ASSUME Administers PROVE Withdrawn'
  <2>1. retired' = retired /\ \A f \in Files : files'[f] \in {files[f], 0}
    BY <1>0, <1>4, AdministerFrame, AdministerRefs
  <2>2. \A k \in Keys : Mapped(k)' => Mapped(k) /\ objects'[k] = objects[k]
    BY <1>0, <1>4, AdministerFrame DEF Mapped
  <2> QED BY <1>0, <1>c, <2>1, <2>2 DEF Withdrawn
<1> QED BY <1>1, <1>2, <1>3, <1>4, NextCases

-----------------------------------------------------------------------------
LEMMA IInvInit == Init => IInv
<1> SUFFICES ASSUME Init PROVE IInv
  OBVIOUS
<1>1. Types /\ Asked
  BY TypesInit
<1>2. /\ \A k \in Keys : ~Mapped(k) /\ ~Rotating(k) /\ write[k] = Still
      /\ \A r \in Requests : ~Under(r) /\ req[r].op = "idle"
      /\ caps = {} /\ tokens = {} /\ retired = {} /\ \A s \in Slugs : links[s] = NoLink
  BY DEF Init, Mapped, Under, Rotating, Still, Idle, Local
<1>3. Refs = {}
  BY <1>2 DEF Refs
<1>4. Writers
  BY <1>2 DEF Writers, Still
<1> QED BY <1>1, <1>2, <1>3, <1>4 DEF IInv, Aliases, Owned, Filled, Alone, Withdrawn

LEMMA IInvStep == IInv /\ [Next]_vars => IInv'
BY TypesStep, WritersStep, AliasesStep, OwnedStep, AloneStep, WithdrawnStep DEF IInv

LEMMA IInvTypes == IInv => TypeOK
<1> SUFFICES ASSUME IInv PROVE TypeOK
  OBVIOUS
<1>1. \A r \in Requests : req[r].op \in {"idle", "link", "download", "insert", "resolve"}
  BY DEF IInv, Types, LocalTypes
<1> QED BY <1>1 DEF IInv, Types, Aliases, TypeOK

(* The tables keep their types and their foreign keys, and the handlers      *)
(* their locals, under every operation that writes or shares an object.      *)
THEOREM SharingTypeCorrect == Spec => []TypeOK
<1> QED BY IInvInit, IInvStep, IInvTypes, PTL DEF Spec

(* A redirect through an alias reads the object that the alias was created   *)
(* for, or nothing (ResolvePublic against DeleteObject and CommitUpload).    *)
THEOREM AliasesCorrect == Spec => []AliasFollowsItsObject
<1>1. IInv => AliasFollowsItsObject
  <2> SUFFICES ASSUME IInv, NEW c \in caps, c.via # None PROVE Reads(c) \in {0, aim[c.via]}
    BY DEF AliasFollowsItsObject
  <2>1. aim[c.via] = c.obj
    BY DEF IInv, Aliases
  <2>2. <<c.obj, c.phys>> \in Refs
    BY KnownRefs
  <2>3. files[c.phys] \in {0, c.obj}
    BY <2>2 DEF IInv, Filled
  <2> QED BY <2>1, <2>3 DEF Reads
<1> QED BY <1>1, IInvInit, IInvStep, PTL DEF Spec

(* What a delete or a rotation that succeeded has withdrawn reads nothing,   *)
(* and never does again (RotateObjectKey, Delete).                           *)
THEOREM RetiredCorrect == Spec => []RetiredReadNothing
<1>1. IInv => RetiredReadNothing
  BY DEF IInv, Withdrawn, RetiredReadNothing, Reads
<1> QED BY <1>1, IInvInit, IInvStep, PTL DEF Spec
=============================================================================
