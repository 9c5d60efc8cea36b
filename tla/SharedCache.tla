---------------------------- MODULE SharedCache ----------------------------
(***************************************************************************)
(* The read cache of public data: sharedCache (cache.service), with its two *)
(* tiers, publicCatalogCache in each process and Redis between them, and    *)
(* RealtimeService's invalidation of both.  The database is the number of   *)
(* the last change of the data; a cached value is the change it was read    *)
(* at.  One key of one namespace: the keys of a namespace fall together.    *)
(***************************************************************************)
EXTENDS Integers, Sequences

CONSTANTS
  Nodes,       \* API processes
  Lookups,     \* reads of the key, each on one node
  At,          \* [Lookups -> Nodes]
  MaxChanges,  \* bound on changes of the data
  MaxLost,     \* bound on INCRs and messages that Redis does not carry out
  MayMemo      \* whether a node remembers the version of the namespace (it does)

Absent == -1

VARIABLES
  db,       \* the last change of the data
  version,  \* the namespace's version in Redis
  l2,       \* [versions -> the value stored under it, or Absent]
  l1,       \* [Nodes -> [value, under: the version it was read under, or Absent if from MongoDB]]
  memo,     \* [Nodes -> versionMemo, or Absent]
  epoch,    \* [Nodes -> the invalidations the process knows of]
  channel,  \* [Nodes -> the messages of cache-invalidate it has not received]
  noted,    \* [Nodes -> the last change whose invalidation it knows of]
  bumping,  \* [Nodes -> its INCRs whose answer has not come]
  lost,     \* how many INCRs and messages were lost
  owed,     \* the nodes whose request has changed the data and not yet emitted
  born,     \* [versions -> the change that the INCR to it announced]
  look      \* [Lookups -> a lookup, its answer and its store]

cacheVars == <<db, version, l2, l1, memo, epoch, channel, noted, bumping, lost, owed, born, look>>

Empty == [value |-> Absent, under |-> Absent]
Idle == [pc |-> "start", epoch |-> 0, version |-> Absent, value |-> Absent]

Init ==
  /\ db = 0 /\ version = 0 /\ lost = 0
  /\ l2 = [v \in 0..MaxChanges |-> Absent] /\ born = [v \in 0..MaxChanges |-> 0] /\ owed = {}
  /\ l1 = [n \in Nodes |-> Empty]
  /\ memo = [n \in Nodes |-> Absent]
  /\ epoch = [n \in Nodes |-> 0]
  /\ channel = [n \in Nodes |-> <<>>]
  /\ noted = [n \in Nodes |-> 0]
  /\ bumping = [n \in Nodes |-> 0]
  /\ look = [k \in Lookups |-> Idle]

-----------------------------------------------------------------------------
(* lookup: L1, the version, L2; then the caller reads MongoDB and stores    *)
Begin(k) ==
  LET n == At[k] IN
  /\ look[k].pc = "start"
  /\ look' = [look EXCEPT ![k] =
       IF l1[n].value # Absent THEN [Idle EXCEPT !.pc = "done"]
       ELSE [Idle EXCEPT !.epoch = epoch[n], !.version = memo[n],
                         !.pc = IF memo[n] = Absent THEN "version" ELSE "data"]]
  /\ UNCHANGED <<db, version, l2, l1, memo, epoch, channel, noted, bumping, lost, owed, born>>

(* the version is read, and remembered when the answer has come             *)
ReadVersion(k) ==
  /\ look[k].pc = "version"
  /\ look' = [look EXCEPT ![k].pc = "answered", ![k].version = version]
  /\ UNCHANGED <<db, version, l2, l1, memo, epoch, channel, noted, bumping, lost, owed, born>>
Remember(k) ==
  /\ look[k].pc = "answered"
  /\ memo' = IF MayMemo THEN [memo EXCEPT ![At[k]] = look[k].version] ELSE memo
  /\ look' = [look EXCEPT ![k].pc = "data"]
  /\ UNCHANGED <<db, version, l2, l1, epoch, channel, noted, bumping, lost, owed, born>>

ReadData(k) ==
  LET found == l2[look[k].version] IN
  /\ look[k].pc = "data"
  /\ look' = [look EXCEPT ![k].pc = IF found = Absent THEN "load" ELSE "hit", ![k].value = found]
  /\ UNCHANGED <<db, version, l2, l1, memo, epoch, channel, noted, bumping, lost, owed, born>>
Hit(k) ==
  LET n == At[k] IN
  /\ look[k].pc = "hit"
  /\ l1' = IF epoch[n] = look[k].epoch
             THEN [l1 EXCEPT ![n] = [value |-> look[k].value, under |-> look[k].version]] ELSE l1
  /\ look' = [look EXCEPT ![k] = [Idle EXCEPT !.pc = "done"]]
  /\ UNCHANGED <<db, version, l2, memo, epoch, channel, noted, bumping, lost, owed, born>>

(* Redis failed or was not there: as version 0, and the database is read    *)
Fails(k) ==
  /\ look[k].pc \in {"version", "data"} /\ lost < MaxLost /\ lost' = lost + 1
  /\ look' = [look EXCEPT ![k].pc = "load",
                          ![k].version = IF look[k].pc = "version" THEN 0 ELSE @]
  /\ UNCHANGED <<db, version, l2, l1, memo, epoch, channel, noted, bumping, owed, born>>

Load(k) ==
  /\ look[k].pc = "load"
  /\ look' = [look EXCEPT ![k].pc = "loaded", ![k].value = db]
  /\ UNCHANGED <<db, version, l2, l1, memo, epoch, channel, noted, bumping, lost, owed, born>>

(* store: nothing when the process has heard of an invalidation meanwhile   *)
KeepIf(k, stored) ==
  /\ look[k].pc = "loaded"
  /\ l1' = IF stored THEN [l1 EXCEPT ![At[k]] = [value |-> look[k].value, under |-> Absent]] ELSE l1
  /\ look' = [look EXCEPT ![k] = IF stored THEN [@ EXCEPT !.pc = "publish"]
                                           ELSE [Idle EXCEPT !.pc = "done"]]
  /\ UNCHANGED <<db, version, l2, memo, epoch, channel, noted, bumping, lost, owed, born>>
(* mutant: what was loaded is kept whatever has been heard since            *)
KeepAnyway(k) == KeepIf(k, TRUE)
KeepLocal(k) == KeepIf(k, epoch[At[k]] = look[k].epoch)
(* mutant: the entry goes under the version of the moment of the store *)
PublishLate(k) ==
  /\ look[k].pc = "publish"
  /\ l2' = [l2 EXCEPT ![version] = look[k].value]
  /\ look' = [look EXCEPT ![k] = [Idle EXCEPT !.pc = "done"]]
  /\ UNCHANGED <<db, version, l1, memo, epoch, channel, noted, bumping, lost, owed, born>>
Publish(k) ==
  /\ look[k].pc = "publish"
  /\ l2' = [l2 EXCEPT ![look[k].version] = look[k].value]
  /\ look' = [look EXCEPT ![k] = [Idle EXCEPT !.pc = "done"]]
  /\ UNCHANGED <<db, version, l1, memo, epoch, channel, noted, bumping, lost, owed, born>>

-----------------------------------------------------------------------------
(* The data changes, and emit invalidates: this process, the version, the   *)
(* others.  INCR and PUBLISH leave one connection in that order.            *)
Change(n) ==
  /\ db < MaxChanges /\ n \notin owed
  /\ db' = db + 1 /\ owed' = owed \cup {n}
  /\ UNCHANGED <<version, l2, l1, memo, epoch, channel, noted, bumping, lost, born, look>>

Forgets(n, what) ==
  /\ epoch' = [epoch EXCEPT ![n] = @ + 1]
  /\ memo' = [memo EXCEPT ![n] = Absent]
  /\ l1' = [l1 EXCEPT ![n] = Empty]
  /\ noted' = [noted EXCEPT ![n] = IF what > @ THEN what ELSE @]

Emit(n) ==
  /\ n \in owed /\ owed' = owed \ {n}
  /\ Forgets(n, db)
  /\ \E bumped \in {TRUE, FALSE} : \E reached \in {Nodes \ {n}, {}} :
       /\ lost' = lost + (IF bumped THEN 0 ELSE 1) + (IF reached = {} THEN 1 ELSE 0)
       /\ lost' <= MaxLost
       /\ version' = IF bumped THEN version + 1 ELSE version
       /\ born' = IF bumped THEN [born EXCEPT ![version + 1] = db] ELSE born
       /\ bumping' = IF bumped THEN [bumping EXCEPT ![n] = @ + 1] ELSE bumping
       /\ channel' = [o \in Nodes |-> IF o \in reached THEN Append(channel[o], db) ELSE channel[o]]
  /\ UNCHANGED <<db, l2, look>>

(* bumpVersion goes on when the answer of the INCR has come                 *)
Bumped(n) ==
  /\ bumping[n] > 0
  /\ bumping' = [bumping EXCEPT ![n] = @ - 1]
  /\ memo' = [memo EXCEPT ![n] = Absent]
  /\ UNCHANGED <<db, version, l2, l1, epoch, channel, noted, lost, owed, born, look>>

Receive(n) ==
  /\ channel[n] # <<>>
  /\ Forgets(n, Head(channel[n]))
  /\ channel' = [channel EXCEPT ![n] = Tail(@)]
  /\ UNCHANGED <<db, version, l2, bumping, lost, owed, born, look>>

(* Entries live for their time: a lookup may find each of them gone.        *)
Expire ==
  /\ \/ \E n \in Nodes : l1[n] # Empty /\ l1' = [l1 EXCEPT ![n] = Empty] /\ UNCHANGED <<l2, memo>>
     \/ \E n \in Nodes : memo[n] # Absent /\ memo' = [memo EXCEPT ![n] = Absent] /\ UNCHANGED <<l1, l2>>
     \/ \E v \in DOMAIN l2 : l2[v] # Absent /\ l2' = [l2 EXCEPT ![v] = Absent] /\ UNCHANGED <<l1, memo>>
  /\ UNCHANGED <<db, version, epoch, channel, noted, bumping, lost, owed, born, look>>

Next ==
  \/ Expire
  \/ \E n \in Nodes : Change(n) \/ Emit(n) \/ Bumped(n) \/ Receive(n)
  \/ \E k \in Lookups : \/ Begin(k) \/ ReadVersion(k) \/ Remember(k) \/ ReadData(k) \/ Hit(k)
                        \/ Fails(k) \/ Load(k) \/ KeepLocal(k) \/ Publish(k)

-----------------------------------------------------------------------------
(* What is stored under a version was read after the change that the bump   *)
(* to this version announced: a load that an invalidation overtakes leaves  *)
(* its stale value where nobody who has the new version looks.              *)
PublishedIsFresh == \A v \in DOMAIN l2 : l2[v] # Absent => l2[v] >= born[v]

(* What a process keeps of the database is as new as the last invalidation  *)
(* it knows of, whatever its lookups were doing when that came.             *)
LoadedIsFresh ==
  \A n \in Nodes : l1[n].value # Absent /\ l1[n].under = Absent => l1[n].value >= noted[n]

(* Both tiers: what may be served of what a cache keeps. *)
KeptIsFresh == PublishedIsFresh /\ LoadedIsFresh

(* Once a process has heard of a change, it does not read older data: the   *)
(* entries of the old version "simply stop being read".                     *)
HeardIsFresh == \A n \in Nodes : l1[n].value # Absent => l1[n].value >= noted[n]
=============================================================================
