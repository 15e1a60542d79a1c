--------------------------- MODULE CalibrationProofs ---------------------------
(***************************************************************************)
(* Proofs about Calibration, for every set of joints, settings and         *)
(* configurations, any number of sessions, and all bounds.                 *)
(***************************************************************************)
EXTENDS Calibration, SequenceTheorems, TLAPS

LEMMA ItemTyped ==
  ASSUME NEW c \in Configs \cup {NoConfig}, NEW i \in DOMAIN c
  PROVE  c[i] \in [joint : Joints, setting : Settings]
<1>1. CASE c = NoConfig
  BY <1>1 DEF NoConfig
<1>2. CASE c \in Configs
  <2>1. c \in Seq([joint : Joints, setting : Settings])
    BY <1>2, ConfigsAssumption
  <2>2. DOMAIN c = 1 .. Len(c)
    BY <2>1
  <2>3. i \in 1 .. Len(c)
    BY <2>2
  <2>q. QED BY <2>1, <2>3, ElementOfSeq
<1>q. QED BY <1>1, <1>2

LEMMA EmptyTyped == Empty \in Docs /\ OncePerJoint(Empty)
BY DEF Empty, Docs, OncePerJoint

LEMMA AbsentTyped == Absent \in Contents /\ OncePerJoint(Absent.doc)
BY EmptyTyped DEF Absent, Contents

LEMMA TornTyped == Torn \in Contents /\ OncePerJoint(Torn.doc)
BY EmptyTyped DEF Torn, Contents

LEMMA WholeTyped ==
  ASSUME NEW d \in Docs, OncePerJoint(d)
  PROVE  Whole(d) \in Contents /\ OncePerJoint(Whole(d).doc)
BY DEF Whole, Contents

LEMMA IdleTyped == Idle \in SessionStates /\ OncePerJoint(Idle.doc)
BY EmptyTyped DEF Idle, SessionStates, NoConfig, Working

LEMMA RecordTyped ==
  ASSUME NEW d \in Docs, OncePerJoint(d),
         NEW c \in Configs \cup {NoConfig},
         NEW s \in [joint : Joints, setting : Settings],
         NEW t \in 0 .. MaxTakes
  PROVE  Record(d, c, s, t) \in Docs /\ OncePerJoint(Record(d, c, s, t))
<1> DEFINE new == [joint |-> s.joint, setting |-> s.setting, take |-> t]
           kept == { e \in d.entries : e.joint # s.joint }
<1>1. new \in Entries /\ kept \subseteq Entries
  BY DEF Entries, Docs
<1>2. Record(d, c, s, t) = [version |-> "current", fingerprint |-> c,
                            entries |-> kept \cup {new}]
  BY DEF Record
<1>3. Record(d, c, s, t) \in Docs
  BY <1>1, <1>2 DEF Docs
<1>4. \A e, f \in kept \cup {new} : e.joint = f.joint => e = f
  BY DEF OncePerJoint
<1>q. QED BY <1>2, <1>3, <1>4 DEF OncePerJoint

LEMMA OldFileTyped ==
  ASSUME NEW c \in Configs
  PROVE  OldFile(c) \in Contents /\ OncePerJoint(OldFile(c).doc)
<1> DEFINE entry(s) == [joint |-> s.joint, setting |-> s.setting, take |-> 0]
           es == { entry(s) : s \in Items(c) }
           d == [version |-> "old", fingerprint |-> c, entries |-> es]
<1>1. \A s \in Items(c) : s \in [joint : Joints, setting : Settings]
  BY ItemTyped DEF Items
<1>2. es \subseteq Entries
  BY <1>1, BoundsAssumption DEF Entries
<1>3. \A s, t \in Items(c) : s.joint = t.joint => s = t
  BY ConfigsAssumption DEF Items
<1>4. \A e, f \in es : e.joint = f.joint => e = f
  BY <1>3
<1>5. d \in Docs /\ OncePerJoint(d)
  BY <1>2, <1>4 DEF Docs, OncePerJoint
<1>q. QED BY <1>5, WholeTyped DEF OldFile

-----------------------------------------------------------------------------
(* Type correctness.                                                       *)

LEMMA GoesTyped ==
  ASSUME session \in [Sessions -> SessionStates],
         \A p \in Sessions : OncePerJoint(session[p].doc),
         NEW o \in Sessions, NEW s \in SessionStates, OncePerJoint(s.doc), Goes(o, s)
  PROVE  /\ session' \in [Sessions -> SessionStates]
         /\ \A p \in Sessions : OncePerJoint(session'[p].doc)
         /\ session'[o] = s
         /\ \A p \in Sessions \ {o} : session'[p] = session[p]
BY DEF Goes

LEMMA TypeInit == Init => TypeOK
<1> SUFFICES ASSUME Init PROVE TypeOK
  OBVIOUS
<1>1. file \in Contents /\ OncePerJoint(file.doc)
  BY AbsentTyped, OldFileTyped DEF Init
<1>2. session \in [Sessions -> SessionStates] /\ \A o \in Sessions : OncePerJoint(session[o].doc)
  BY IdleTyped DEF Init
<1>q. QED BY <1>1, <1>2, BoundsAssumption DEF Init, TypeOK

LEMMA TypeStep == TypeOK /\ [Next]_vars => TypeOK'
<1> SUFFICES ASSUME TypeOK, [Next]_vars PROVE TypeOK'
  OBVIOUS
<1>1. ASSUME NEW o \in Sessions, Start(o) PROVE TypeOK'
  <2> DEFINE s == [Idle EXCEPT !.pc = "loading", !.cfg = config]
  <2>1. s \in SessionStates /\ OncePerJoint(s.doc)
    BY IdleTyped DEF SessionStates, Working, TypeOK, Idle
  <2>q. QED BY <1>1, <2>1, GoesTyped DEF Start, TypeOK
<1>2. ASSUME NEW o \in Sessions, NEW first \in DOMAIN session[o].cfg,
             NEW named \in SUBSET Joints, NEW redo \in BOOLEAN,
             LoadStore(o, first, named, redo)
      PROVE  TypeOK'
  <2> DEFINE todo == Todo(session[o].cfg, file.doc, first, named, redo)
             s == IF todo = {} THEN Idle
                  ELSE [session[o] EXCEPT !.pc = "capturing", !.doc = file.doc,
                                          !.todo = todo, !.fresh = TRUE]
  <2>1. todo \subseteq Joints
    BY <1>2 DEF Todo
  <2>2. s \in SessionStates /\ OncePerJoint(s.doc)
    BY <2>1, IdleTyped DEF SessionStates, Working, TypeOK, Contents
  <2>3. Goes(o, s)
    BY <1>2 DEF LoadStore
  <2>q. QED BY <1>2, <2>2, <2>3, GoesTyped DEF LoadStore, TypeOK
<1>3. ASSUME NEW o \in Sessions, Skip(o) PROVE TypeOK'
  <2>1. PICK i \in DOMAIN session[o].cfg :
          Goes(o, [session[o] EXCEPT !.todo = @ \ {session[o].cfg[i].joint}])
    BY <1>3 DEF Skip
  <2> DEFINE s == [session[o] EXCEPT !.todo = @ \ {session[o].cfg[i].joint}]
  <2>2. s \in SessionStates /\ OncePerJoint(s.doc)
    BY DEF SessionStates, TypeOK
  <2>q. QED BY <1>3, <2>1, <2>2, GoesTyped DEF Skip, TypeOK
<1>4. ASSUME NEW o \in Sessions, JointCaptured(o) PROVE TypeOK'
  <2>1. PICK i \in DOMAIN session[o].cfg :
          Goes(o, [session[o] EXCEPT !.pc = "recorded",
                     !.doc = Record(@, session[o].cfg, session[o].cfg[i], takes')])
    BY <1>4 DEF JointCaptured
  <2>2. takes' \in 0 .. MaxTakes
    BY <1>4, BoundsAssumption DEF JointCaptured, TypeOK
  <2> DEFINE d == Record(session[o].doc, session[o].cfg, session[o].cfg[i], takes')
             s == [session[o] EXCEPT !.pc = "recorded", !.doc = d]
  <2>3. session[o] \in SessionStates /\ OncePerJoint(session[o].doc)
    BY DEF TypeOK
  <2>4. session[o].cfg \in Configs \cup {NoConfig} /\ session[o].doc \in Docs
    BY <2>3 DEF SessionStates
  <2>5. d \in Docs /\ OncePerJoint(d)
    BY <2>2, <2>3, <2>4, ItemTyped, RecordTyped
  <2>6. s \in SessionStates /\ OncePerJoint(s.doc)
    BY <2>3, <2>5 DEF SessionStates, Working
  <2>7. Goes(o, s)
    BY <2>1
  <2>q. QED BY <1>4, <2>2, <2>6, <2>7, GoesTyped DEF JointCaptured, TypeOK
<1>5. ASSUME NEW o \in Sessions, WriteTemp(o) PROVE TypeOK'
  <2> DEFINE s == [session[o] EXCEPT !.pc = "written", !.synced = TRUE]
  <2>1. s \in SessionStates /\ OncePerJoint(s.doc)
    BY DEF SessionStates, Working, TypeOK
  <2>q. QED BY <1>5, <2>1, GoesTyped DEF WriteTemp, TypeOK
<1>6. ASSUME NEW o \in Sessions, Replace(o) PROVE TypeOK'
  <2>1. session[o].doc \in Docs /\ OncePerJoint(session[o].doc)
    BY DEF TypeOK, SessionStates
  <2>2. file' \in Contents /\ OncePerJoint(file'.doc)
    BY <1>6, <2>1, WholeTyped DEF Replace
  <2>3. onDisk' \subseteq Contents /\ \A f \in onDisk' : OncePerJoint(f.doc)
    BY <1>6, <2>2, TornTyped DEF Replace, TypeOK
  <2>4. ASSUME NEW p \in Sessions
        PROVE  session'[p] \in SessionStates /\ session'[p].doc = session[p].doc
    <3>1. session[p] \in SessionStates
      BY DEF TypeOK
    <3>2. session'[p] = IF p = o
            THEN [session[p] EXCEPT !.pc = "replaced", !.synced = FALSE, !.fresh = TRUE]
            ELSE [session[p] EXCEPT !.fresh = FALSE]
      BY <1>6 DEF Replace
    <3>q. QED BY <3>1, <3>2 DEF SessionStates, Working
  <2>5. session' \in [Sessions -> SessionStates]
    BY <1>6, <2>4 DEF Replace
  <2>q. QED BY <1>6, <2>2, <2>3, <2>4, <2>5 DEF Replace, TypeOK
<1>7. ASSUME NEW o \in Sessions, NEW i \in DOMAIN session[o].cfg, Reported(o, i)
      PROVE  /\ session' \in [Sessions -> SessionStates]
             /\ \A p \in Sessions : OncePerJoint(session'[p].doc)
             /\ saved' \subseteq [joint : Joints, take : 0 .. MaxTakes]
  <2> DEFINE s == [session[o] EXCEPT !.pc = "capturing",
                                     !.todo = @ \ {session[o].cfg[i].joint}]
  <2>1. s \in SessionStates /\ OncePerJoint(s.doc)
    BY DEF SessionStates, Working, TypeOK
  <2>2. Goes(o, s)
    BY <1>7 DEF Reported
  <2>3. session[o].doc.entries \subseteq Entries
    BY DEF TypeOK, SessionStates, Docs
  <2>4. saved' \subseteq [joint : Joints, take : 0 .. MaxTakes]
    BY <1>7, <2>3 DEF Reported, TypeOK, Entries
  <2>q. QED BY <2>1, <2>2, <2>4, GoesTyped DEF TypeOK
<1>8. ASSUME NEW o \in Sessions, SyncDir(o) \/ SyncDirFails(o) PROVE TypeOK'
  <2>1. PICK i \in DOMAIN session[o].cfg : Reported(o, i)
    BY <1>8 DEF SyncDir, SyncDirFails
  <2>2. onDisk' \subseteq Contents /\ \A f \in onDisk' : OncePerJoint(f.doc)
    BY <1>8 DEF SyncDir, SyncDirFails, TypeOK
  <2>3. lapses' \subseteq {"overlap", "unsynced"}
    BY <1>8 DEF SyncDir, SyncDirFails, TypeOK
  <2>q. QED BY <1>7, <1>8, <2>1, <2>2, <2>3 DEF SyncDir, SyncDirFails, TypeOK
<1>9. ASSUME NEW o \in Sessions, Finish(o) \/ Ends(o) PROVE TypeOK'
  BY <1>9, IdleTyped, GoesTyped DEF Finish, Ends, TypeOK
<1>10. CASE EditConfig
  BY <1>10, BoundsAssumption DEF EditConfig, TypeOK
<1>11. CASE EraseFile
  BY <1>11, AbsentTyped, BoundsAssumption DEF EraseFile, TypeOK
<1>12. CASE PowerCut
  BY <1>12, IdleTyped, BoundsAssumption DEF PowerCut, TypeOK
<1>13. CASE UNCHANGED vars
  BY <1>13 DEF vars, TypeOK
<1>q. QED
  BY <1>1, <1>2, <1>3, <1>4, <1>5, <1>6, <1>8, <1>9, <1>10, <1>11, <1>12, <1>13
  DEF Next, SessionStep

\* No document ever names a joint twice, and no component leaves its type.
THEOREM TypeCorrect == Spec => []TypeOK
<1>q. QED BY TypeInit, TypeStep, PTL DEF Spec

-----------------------------------------------------------------------------
(* The file is whole.  What goes over it was synchronised first.           *)

WrittenIsSynced == \A o \in Sessions : session[o].pc = "written" => session[o].synced

WholeInv == FileIsWhole /\ WrittenIsSynced

LEMMA WholeStep == TypeOK /\ WholeInv /\ [Next]_vars => WholeInv'
<1> SUFFICES ASSUME TypeOK, WholeInv, [Next]_vars PROVE WholeInv'
  OBVIOUS
<1> USE DEF WholeInv, WrittenIsSynced, FileIsWhole
<1>0. session \in [Sessions -> SessionStates]
  BY DEF TypeOK
<1>1. ASSUME NEW o \in Sessions, NEW s \in SessionStates, Goes(o, s),
             s.pc = "written" => s.synced, UNCHANGED file, onDisk' \subseteq onDisk \cup {file}
      PROVE  WholeInv'
  BY <1>0, <1>1 DEF Goes
<1>2. ASSUME NEW o \in Sessions, Start(o) PROVE WholeInv'
  <2> DEFINE s == [Idle EXCEPT !.pc = "loading", !.cfg = config]
  <2>1. s \in SessionStates /\ s.pc = "loading"
    BY IdleTyped DEF SessionStates, Working, TypeOK, Idle
  <2>q. QED BY <1>1, <1>2, <2>1 DEF Start
<1>3. ASSUME NEW o \in Sessions, NEW first \in DOMAIN session[o].cfg,
             NEW named \in SUBSET Joints, NEW redo \in BOOLEAN,
             LoadStore(o, first, named, redo)
      PROVE  WholeInv'
  BY <1>0, <1>3 DEF LoadStore, Goes, Idle, SessionStates
<1>4. ASSUME NEW o \in Sessions, Skip(o) \/ JointCaptured(o) \/ WriteTemp(o) PROVE WholeInv'
  BY <1>0, <1>4 DEF Skip, JointCaptured, WriteTemp, Goes, SessionStates
<1>5. ASSUME NEW o \in Sessions, Replace(o) PROVE WholeInv'
  <2>1. session[o].synced
    BY <1>5 DEF Replace
  <2>2. onDisk' = onDisk \cup {file'} /\ file'.state = "whole"
    BY <1>5, <2>1 DEF Replace, Whole
  <2>3. \A p \in Sessions : session'[p].pc = "written" => session'[p].synced
    BY <1>0, <1>5 DEF Replace, SessionStates
  <2>q. QED BY <2>2, <2>3
<1>6. ASSUME NEW o \in Sessions, SyncDir(o) \/ SyncDirFails(o) PROVE WholeInv'
  BY <1>0, <1>6 DEF SyncDir, SyncDirFails, Reported, Goes, SessionStates
<1>7. ASSUME NEW o \in Sessions, Finish(o) \/ Ends(o) PROVE WholeInv'
  BY <1>0, <1>7 DEF Finish, Ends, Goes, Idle
<1>8. CASE EditConfig \/ EraseFile
  BY <1>8 DEF EditConfig, EraseFile, Absent
<1>9. CASE PowerCut
  BY <1>9 DEF PowerCut, Idle
<1>10. CASE UNCHANGED vars
  BY <1>10 DEF vars
<1>q. QED
  BY <1>2, <1>3, <1>4, <1>5, <1>6, <1>7, <1>8, <1>9, <1>10 DEF Next, SessionStep

LEMMA WholeInit == Init => WholeInv
BY DEF Init, WholeInv, FileIsWhole, WrittenIsSynced, Absent, OldFile, Whole, Idle

\* Whatever the sessions do, a power cut leaves a file that can be read.
THEOREM FileWhole == Spec => []FileIsWhole
<1>1. WholeInv => FileIsWhole
  BY DEF WholeInv
<1>q. QED BY <1>1, TypeInit, TypeStep, WholeInit, WholeStep, PTL DEF Spec

-----------------------------------------------------------------------------
(* Saved work survives.  A joint that is in the file but not reported yet   *)
(* is a claim as good as one that is; as long as nothing went wrong outside *)
(* the store, the file, and the memory of every session that knows the      *)
(* file, keep all claims, and all that a power cut may leave keeps what was *)
(* reported.                                                               *)

DocKeeps(d, r) == \E e \in d.entries : e.joint = r.joint /\ e.take >= r.take

AsSaved(e) == [joint |-> e.joint, take |-> e.take]

\* What a session that has replaced the file is about to report.
Pending(s) ==
  { AsSaved(e) : e \in { x \in s.doc.entries :
      s.pc = "replaced" /\ \E i \in DOMAIN s.cfg : IsAt(s, i) /\ x.joint = s.cfg[i].joint } }

Claimed(r) == r \in saved \/ \E o \in Sessions : r \in Pending(session[o])

Knowing == {"capturing", "recorded", "written", "replaced"}

NoLaterTakes(d) == \A e \in d.entries : e.take <= takes

TakesCounted ==
  /\ NoLaterTakes(file.doc)
  /\ \A f \in onDisk : NoLaterTakes(f.doc)
  /\ \A o \in Sessions : NoLaterTakes(session[o].doc)
  /\ \A r \in saved : r.take <= takes

ClaimsKept ==
  lapses = {} =>
    /\ \A f \in onDisk : \A r \in saved : Keeps(f, r)
    /\ \A r : Claimed(r) => Keeps(file, r)
    /\ \A o \in Sessions : session[o].pc \in Knowing /\ session[o].fresh =>
         \A r : Claimed(r) => DocKeeps(session[o].doc, r)

LEMMA TakesStep == TypeOK /\ TakesCounted /\ [Next]_vars => TakesCounted'
<1> SUFFICES ASSUME TypeOK, TakesCounted, [Next]_vars PROVE TakesCounted'
  OBVIOUS
<1>0. session \in [Sessions -> SessionStates] /\ takes \in Nat
  BY BoundsAssumption DEF TypeOK
<1>e. \A n : \A e \in Empty.entries : e.take <= n
  BY DEF Empty
<1>1. ASSUME NEW o \in Sessions, NEW s, Goes(o, s), NoLaterTakes(s.doc),
             UNCHANGED <<file, onDisk, saved, takes>>
      PROVE  TakesCounted'
  BY <1>0, <1>1 DEF Goes, TakesCounted, NoLaterTakes
<1>2. ASSUME NEW o \in Sessions, Start(o) PROVE TakesCounted'
  BY <1>1, <1>2, <1>e DEF Start, Idle, NoLaterTakes
<1>3. ASSUME NEW o \in Sessions, NEW first \in DOMAIN session[o].cfg,
             NEW named \in SUBSET Joints, NEW redo \in BOOLEAN,
             LoadStore(o, first, named, redo)
      PROVE  TakesCounted'
  <2> DEFINE todo == Todo(session[o].cfg, file.doc, first, named, redo)
             s == IF todo = {} THEN Idle
                  ELSE [session[o] EXCEPT !.pc = "capturing", !.doc = file.doc,
                                          !.todo = todo, !.fresh = TRUE]
  <2>1. NoLaterTakes(s.doc)
    BY <1>0, <1>e DEF Idle, NoLaterTakes, TakesCounted, SessionStates
  <2>2. Goes(o, s)
    BY <1>3 DEF LoadStore
  <2>q. QED BY <1>1, <1>3, <2>1, <2>2 DEF LoadStore
<1>4. ASSUME NEW o \in Sessions, Skip(o) PROVE TakesCounted'
  <2>1. PICK i \in DOMAIN session[o].cfg :
          Goes(o, [session[o] EXCEPT !.todo = @ \ {session[o].cfg[i].joint}])
    BY <1>4 DEF Skip
  <2>2. NoLaterTakes([session[o] EXCEPT !.todo = @ \ {session[o].cfg[i].joint}].doc)
    BY <1>0 DEF TakesCounted, SessionStates
  <2>q. QED BY <1>1, <1>4, <2>1, <2>2 DEF Skip
<1>5. ASSUME NEW o \in Sessions, JointCaptured(o) PROVE TakesCounted'
  <2>1. PICK i \in DOMAIN session[o].cfg :
          session' = [session EXCEPT ![o] = [session[o] EXCEPT !.pc = "recorded",
            !.doc = Record(@, session[o].cfg, session[o].cfg[i], takes')]]
    BY <1>5 DEF JointCaptured, Goes
  <2>2. takes' = takes + 1 /\ UNCHANGED <<file, onDisk, saved>>
    BY <1>5 DEF JointCaptured
  <2>3. ASSUME NEW p \in Sessions, NEW e \in session[p].doc.entries PROVE e.take \in Nat
    <3>1. session[p].doc \in Docs
      BY <1>0 DEF SessionStates
    <3>q. QED BY <3>1, BoundsAssumption DEF Docs, Entries
  <2>4. \A f \in onDisk \cup {file} : \A e \in f.doc.entries : e.take \in Nat
    BY BoundsAssumption DEF TypeOK, Contents, Docs, Entries
  <2>5. \A r \in saved : r.take \in Nat
    BY BoundsAssumption DEF TypeOK
  <2>6. ASSUME NEW e \in session'[o].doc.entries PROVE e.take <= takes'
    <3>1. e \in session[o].doc.entries \/ e.take = takes'
      BY <1>0, <2>1 DEF Record, SessionStates
    <3>q. QED BY <1>0, <2>2, <2>3, <3>1 DEF TakesCounted, NoLaterTakes
  <2>7. ASSUME NEW p \in Sessions \ {o}, NEW e \in session'[p].doc.entries
        PROVE  e.take <= takes'
    <3>1. session'[p] = session[p]
      BY <1>0, <2>1
    <3>q. QED BY <1>0, <2>2, <2>3, <3>1 DEF TakesCounted, NoLaterTakes
  <2>8. \A f \in onDisk \cup {file} : \A e \in f.doc.entries : e.take <= takes'
    BY <1>0, <2>2, <2>4 DEF TakesCounted, NoLaterTakes
  <2>9. \A r \in saved : r.take <= takes'
    BY <1>0, <2>2, <2>5 DEF TakesCounted
  <2>q. QED BY <2>2, <2>6, <2>7, <2>8, <2>9 DEF TakesCounted, NoLaterTakes
<1>6. ASSUME NEW o \in Sessions, WriteTemp(o) PROVE TakesCounted'
  <2>1. NoLaterTakes([session[o] EXCEPT !.pc = "written", !.synced = TRUE].doc)
    BY <1>0 DEF TakesCounted, SessionStates
  <2>q. QED BY <1>1, <1>6, <2>1 DEF WriteTemp
<1>7. ASSUME NEW o \in Sessions, Replace(o) PROVE TakesCounted'
  <2>1. \A p \in Sessions : session'[p].doc = session[p].doc
    BY <1>0, <1>7 DEF Replace, SessionStates
  <2>2. file' = Whole(session[o].doc) /\ onDisk' \subseteq onDisk \cup {file', Torn}
    BY <1>7 DEF Replace
  <2>3. UNCHANGED <<takes, saved>>
    BY <1>7 DEF Replace
  <2>4. NoLaterTakes(file'.doc) /\ NoLaterTakes(Torn.doc)
    BY <2>2, <1>e DEF Whole, Torn, TakesCounted, NoLaterTakes
  <2>q. QED BY <2>1, <2>2, <2>3, <2>4 DEF TakesCounted, NoLaterTakes
<1>8. ASSUME NEW o \in Sessions, SyncDir(o) \/ SyncDirFails(o) PROVE TakesCounted'
  <2>1. PICK i \in DOMAIN session[o].cfg : Reported(o, i)
    BY <1>8 DEF SyncDir, SyncDirFails
  <2>2. \A p \in Sessions : session'[p].doc = session[p].doc
    BY <1>0, <2>1 DEF Reported, Goes, SessionStates
  <2>3. \A r \in saved' : r.take <= takes
    BY <2>1 DEF Reported, TakesCounted, NoLaterTakes
  <2>4. file' = file /\ takes' = takes /\ onDisk' \subseteq onDisk \cup {file}
    BY <1>8 DEF SyncDir, SyncDirFails
  <2>q. QED BY <2>2, <2>3, <2>4 DEF TakesCounted, NoLaterTakes
<1>9. ASSUME NEW o \in Sessions, Finish(o) \/ Ends(o) PROVE TakesCounted'
  BY <1>1, <1>9, <1>e DEF Finish, Ends, Idle, NoLaterTakes
<1>10. CASE EditConfig
  BY <1>10 DEF EditConfig, TakesCounted, NoLaterTakes
<1>11. CASE EraseFile
  BY <1>11, <1>e DEF EraseFile, Absent, TakesCounted, NoLaterTakes
<1>12. CASE PowerCut
  BY <1>12, <1>e DEF PowerCut, Idle, TakesCounted, NoLaterTakes
<1>13. CASE UNCHANGED vars
  BY <1>13 DEF vars, TakesCounted, NoLaterTakes
<1>q. QED
  BY <1>2, <1>3, <1>4, <1>5, <1>6, <1>7, <1>8, <1>9, <1>10, <1>11, <1>12, <1>13
  DEF Next, SessionStep

LEMMA ClaimsStep ==
  TypeOK /\ WholeInv /\ TakesCounted /\ ClaimsKept /\ [Next]_vars => ClaimsKept'
<1> SUFFICES ASSUME TypeOK, WholeInv, TakesCounted, ClaimsKept, [Next]_vars, lapses' = {}
             PROVE  ClaimsKept'
  BY DEF ClaimsKept
<1>0. session \in [Sessions -> SessionStates] /\ takes \in Nat
  BY BoundsAssumption DEF TypeOK
<1>e. lapses = {}
  BY DEF Next, SessionStep, Start, LoadStore, Skip, JointCaptured, WriteTemp, Replace,
         SyncDir, SyncDirFails, Finish, Ends, EditConfig, EraseFile, PowerCut, vars
\* A step that leaves the disk alone and makes no claim.
<1>1. ASSUME NEW o \in Sessions, NEW s, Goes(o, s), UNCHANGED <<file, onDisk, saved>>,
             s.pc # "replaced",
             s.pc \in Knowing /\ s.fresh => \A r : Claimed(r) => DocKeeps(s.doc, r)
      PROVE  ClaimsKept'
  <2>1. session'[o] = s /\ \A p \in Sessions \ {o} : session'[p] = session[p]
    BY <1>0, <1>1 DEF Goes
  <2>2. Pending(s) = {}
    BY <1>1 DEF Pending
  <2>3. \A r : Claimed(r)' => Claimed(r)
    BY <1>1, <2>1, <2>2 DEF Claimed
  <2>q. QED BY <1>1, <1>e, <2>1, <2>3 DEF ClaimsKept
<1>2. ASSUME NEW o \in Sessions, Start(o) PROVE ClaimsKept'
  BY <1>1, <1>2 DEF Start, Idle, Knowing
<1>3. ASSUME NEW o \in Sessions, NEW first \in DOMAIN session[o].cfg,
             NEW named \in SUBSET Joints, NEW redo \in BOOLEAN,
             LoadStore(o, first, named, redo)
      PROVE  ClaimsKept'
  <2> DEFINE todo == Todo(session[o].cfg, file.doc, first, named, redo)
             s == IF todo = {} THEN Idle
                  ELSE [session[o] EXCEPT !.pc = "capturing", !.doc = file.doc,
                                          !.todo = todo, !.fresh = TRUE]
  <2>1. \A r : Claimed(r) => DocKeeps(file.doc, r)
    BY <1>e DEF ClaimsKept, Keeps, DocKeeps
  <2>2. s.pc # "replaced" /\ (s.pc \in Knowing => s.doc = file.doc)
    BY <1>0 DEF Idle, SessionStates, Knowing
  <2>3. Goes(o, s)
    BY <1>3 DEF LoadStore
  <2> HIDE DEF s
  <2>q. QED BY <1>1, <1>3, <2>1, <2>2, <2>3 DEF LoadStore
<1>4. ASSUME NEW o \in Sessions, Skip(o) PROVE ClaimsKept'
  <2>1. PICK i \in DOMAIN session[o].cfg :
          Goes(o, [session[o] EXCEPT !.todo = @ \ {session[o].cfg[i].joint}])
    BY <1>4 DEF Skip
  <2> DEFINE s == [session[o] EXCEPT !.todo = @ \ {session[o].cfg[i].joint}]
  <2>2. s.pc = "capturing" /\ s.doc = session[o].doc /\ s.fresh = session[o].fresh
    BY <1>0, <1>4 DEF Skip, SessionStates
  <2>3. s.fresh => \A r : Claimed(r) => DocKeeps(s.doc, r)
    BY <1>4, <1>e, <2>2 DEF Skip, ClaimsKept, Knowing
  <2>4. Goes(o, s)
    BY <2>1
  <2> HIDE DEF s
  <2>q. QED BY <1>1, <1>4, <2>2, <2>3, <2>4 DEF Skip
<1>5. ASSUME NEW o \in Sessions, JointCaptured(o) PROVE ClaimsKept'
  <2>1. PICK i \in DOMAIN session[o].cfg :
          Goes(o, [session[o] EXCEPT !.pc = "recorded",
                     !.doc = Record(@, session[o].cfg, session[o].cfg[i], takes')])
    BY <1>5 DEF JointCaptured
  <2> DEFINE d == Record(session[o].doc, session[o].cfg, session[o].cfg[i], takes')
             s == [session[o] EXCEPT !.pc = "recorded", !.doc = d]
  <2>2. s.pc = "recorded" /\ s.doc = d /\ s.fresh = session[o].fresh
    BY <1>0 DEF SessionStates
  <2>3. ASSUME session[o].fresh, NEW r, Claimed(r) PROVE DocKeeps(d, r)
    <3>1. PICK e \in session[o].doc.entries : e.joint = r.joint /\ e.take >= r.take
      BY <1>5, <1>e, <2>3 DEF JointCaptured, ClaimsKept, Knowing, DocKeeps
    <3>2. r.take \in Nat /\ r.take <= takes
      <4>1. CASE r \in saved
        BY <4>1, BoundsAssumption DEF TypeOK, TakesCounted
      <4>2. ASSUME NEW p \in Sessions, r \in Pending(session[p])
            PROVE  r.take \in Nat /\ r.take <= takes
        <5>1. PICK x \in session[p].doc.entries : r = AsSaved(x)
          BY <4>2 DEF Pending
        <5>2. session[p].doc \in Docs
          BY <1>0 DEF SessionStates
        <5>q. QED BY <5>1, <5>2, BoundsAssumption
                  DEF AsSaved, Docs, Entries, TakesCounted, NoLaterTakes
      <4>q. QED BY <2>3, <4>1, <4>2 DEF Claimed
    <3>3. takes' = takes + 1
      BY <1>5 DEF JointCaptured
    <3>4. CASE e.joint = session[o].cfg[i].joint
      <4> DEFINE new == [ joint |-> session[o].cfg[i].joint,
                          setting |-> session[o].cfg[i].setting, take |-> takes' ]
      <4>1. new \in d.entries
        BY DEF Record
      <4>2. new.joint = r.joint /\ new.take >= r.take
        BY <1>0, <3>1, <3>2, <3>3, <3>4
      <4>q. QED BY <4>1, <4>2 DEF DocKeeps
    <3>5. CASE e.joint # session[o].cfg[i].joint
      BY <3>1, <3>5 DEF DocKeeps, Record
    <3>q. QED BY <3>4, <3>5
  <2>4. Goes(o, s)
    BY <2>1
  <2> HIDE DEF s, d
  <2>q. QED BY <1>1, <1>5, <2>2, <2>3, <2>4 DEF JointCaptured
<1>6. ASSUME NEW o \in Sessions, WriteTemp(o) PROVE ClaimsKept'
  <2> DEFINE s == [session[o] EXCEPT !.pc = "written", !.synced = TRUE]
  <2>1. s.pc = "written" /\ s.doc = session[o].doc /\ s.fresh = session[o].fresh
    BY <1>0 DEF SessionStates
  <2>2. s.fresh => \A r : Claimed(r) => DocKeeps(s.doc, r)
    BY <1>6, <1>e, <2>1 DEF WriteTemp, ClaimsKept, Knowing
  <2>3. Goes(o, s)
    BY <1>6 DEF WriteTemp
  <2> HIDE DEF s
  <2>q. QED BY <1>1, <1>6, <2>1, <2>2, <2>3 DEF WriteTemp
<1>7. ASSUME NEW o \in Sessions, Replace(o) PROVE ClaimsKept'
  <2>1. session[o].fresh /\ session[o].pc = "written"
    BY <1>7 DEF Replace
  <2>2. \A r : Claimed(r) => DocKeeps(session[o].doc, r)
    BY <1>e, <2>1 DEF ClaimsKept, Knowing
  <2>3. file' = Whole(session[o].doc) /\ saved' = saved
    BY <1>7 DEF Replace
  <2>4. session[o].synced
    BY <2>1 DEF WholeInv, WrittenIsSynced
  <2>5. ASSUME NEW p \in Sessions
        PROVE  /\ session'[p].doc = session[p].doc
               /\ p # o => ~session'[p].fresh /\ Pending(session'[p]) = Pending(session[p])
    BY <1>0, <1>7 DEF Replace, SessionStates, Pending, IsAt
  <2>6. \A r \in Pending(session'[o]) : DocKeeps(session[o].doc, r)
    <3>1. ASSUME NEW r \in Pending(session'[o]) PROVE DocKeeps(session[o].doc, r)
      <4>1. PICK e \in session[o].doc.entries : r = AsSaved(e)
        BY <2>5 DEF Pending
      <4>2. e.take \in Nat
        <5>1. session[o].doc \in Docs
          BY <1>0 DEF SessionStates
        <5>q. QED BY <5>1, BoundsAssumption DEF Docs, Entries
      <4>q. QED BY <4>1, <4>2 DEF AsSaved, DocKeeps
    <3>q. QED BY <3>1
  <2>7. \A r : Claimed(r)' => DocKeeps(session[o].doc, r)
    BY <2>2, <2>3, <2>5, <2>6 DEF Claimed
  <2>8. \A r : Claimed(r)' => Keeps(file', r)
    BY <2>3, <2>7 DEF Keeps, DocKeeps, Whole
  <2>9. \A r \in saved' : Claimed(r)'
    BY DEF Claimed
  <2>10. onDisk' = onDisk \cup {file'}
    BY <1>7, <2>4 DEF Replace
  <2>11. \A f \in onDisk', r \in saved' : Keeps(f, r)
    BY <1>e, <2>3, <2>8, <2>9, <2>10 DEF ClaimsKept
  <2>12. \A p \in Sessions : session'[p].fresh => p = o
    BY <2>5
  <2>q. QED BY <2>5, <2>7, <2>8, <2>11, <2>12 DEF ClaimsKept
<1>8. ASSUME NEW o \in Sessions, SyncDir(o) PROVE ClaimsKept'
  <2>1. PICK i \in DOMAIN session[o].cfg : Reported(o, i)
    BY <1>8 DEF SyncDir
  <2> DEFINE s == [session[o] EXCEPT !.pc = "capturing",
                                     !.todo = @ \ {session[o].cfg[i].joint}]
  <2>2. s.pc = "capturing" /\ s.doc = session[o].doc /\ s.fresh = session[o].fresh
    BY <1>0 DEF SessionStates
  <2>3. session'[o] = s /\ \A p \in Sessions \ {o} : session'[p] = session[p]
    BY <1>0, <2>1 DEF Reported, Goes
  <2>4. \A r \in saved' : r \in saved \/ r \in Pending(session[o])
    BY <1>8, <2>1 DEF Reported, SyncDir, Pending, AsSaved
  <2>5. Pending(s) = {}
    BY <2>2 DEF Pending
  <2>6. \A r : Claimed(r)' => Claimed(r)
    BY <2>3, <2>4, <2>5 DEF Claimed
  <2>7. file' = file /\ onDisk' = {file}
    BY <1>8 DEF SyncDir
  <2>8. \A r \in saved' : Claimed(r)
    BY <2>4 DEF Claimed
  <2>9. session[o].pc = "replaced"
    BY <1>8 DEF SyncDir
  <2> HIDE DEF s
  <2>10. ASSUME NEW p \in Sessions, session'[p].pc \in Knowing, session'[p].fresh
         PROVE  \A r : Claimed(r) => DocKeeps(session'[p].doc, r)
    BY <1>e, <2>2, <2>3, <2>9, <2>10 DEF ClaimsKept, Knowing
  <2>q. QED BY <1>e, <2>6, <2>7, <2>8, <2>10 DEF ClaimsKept
<1>9. ASSUME NEW o \in Sessions, SyncDirFails(o) PROVE ClaimsKept'
  BY <1>9 DEF SyncDirFails
<1>10. ASSUME NEW o \in Sessions, Finish(o) \/ Ends(o) PROVE ClaimsKept'
  BY <1>1, <1>10 DEF Finish, Ends, Idle, Knowing
<1>11. CASE EditConfig \/ UNCHANGED vars
  BY <1>11 DEF EditConfig, vars, ClaimsKept, Claimed
<1>12. CASE EraseFile
  <2>1. \A p \in Sessions : session[p].pc = "off"
    BY <1>0, <1>12 DEF EraseFile, SessionStates
  <2>2. \A p \in Sessions : Pending(session[p]) = {}
    BY <2>1 DEF Pending
  <2>3. session' = session /\ saved' = {}
    BY <1>12 DEF EraseFile
  <2>4. \A r : ~Claimed(r)'
    BY <2>2, <2>3 DEF Claimed
  <2>q. QED BY <2>3, <2>4 DEF ClaimsKept
<1>13. CASE PowerCut
  <2>1. \A p \in Sessions : session'[p] = Idle
    BY <1>13 DEF PowerCut
  <2>2. Pending(Idle) = {}
    BY DEF Pending, Idle
  <2>3. saved' = saved /\ file' \in onDisk /\ onDisk' = {file'}
    BY <1>13 DEF PowerCut
  <2>4. \A r : Claimed(r)' => r \in saved
    BY <2>1, <2>2, <2>3 DEF Claimed
  <2>q. QED BY <1>e, <2>1, <2>3, <2>4 DEF ClaimsKept, Knowing, Idle
<1>q. QED
  BY <1>2, <1>3, <1>4, <1>5, <1>6, <1>7, <1>8, <1>9, <1>10, <1>11, <1>12, <1>13
  DEF Next, SessionStep

\* A joint reported as saved stays in the file, in that take or a later one, as
\* long as sessions do not overlap and directories can be synchronised.
THEOREM SavedWorkSurvives == Spec => []WorkSurvives
<1>1. Init => TakesCounted
  <2> SUFFICES ASSUME Init PROVE TakesCounted
    OBVIOUS
  <2>1. \A e \in Empty.entries : e.take <= 0
    BY DEF Empty
  <2>2. \A c \in Configs : \A e \in OldFile(c).doc.entries : e.take = 0
    BY DEF OldFile, Whole
  <2>3. \A e \in file.doc.entries : e.take <= 0
    BY <2>1, <2>2 DEF Init, Absent
  <2>q. QED BY <2>1, <2>3 DEF Init, TakesCounted, NoLaterTakes, Idle
<1>2. Init => ClaimsKept
  BY DEF Init, ClaimsKept, Claimed, Pending, Idle, Knowing
<1>3. ClaimsKept => WorkSurvives
  BY DEF ClaimsKept, Claimed, WorkSurvives
<1>q. QED
  BY <1>1, <1>2, <1>3, TypeInit, TypeStep, WholeInit, WholeStep, TakesStep, ClaimsStep,
     PTL DEF Spec

-----------------------------------------------------------------------------
(* The gate and the exit code.                                             *)

LEMMA AcceptedInv == TypeOK /\ WorkSurvives => AcceptedIsCalibrated
<1> SUFFICES ASSUME TypeOK, WorkSurvives, NEW c \in Configs, Accepts(file, c),
                    NEW s \in Items(c)
             PROVE  \E e \in file.doc.entries :
                      /\ e.joint = s.joint /\ e.setting = s.setting
                      /\ lapses = {} => \A r \in saved : r.joint = s.joint => e.take >= r.take
  BY DEF AcceptedIsCalibrated
<1>1. PICK e \in file.doc.entries : e.joint = s.joint
  BY DEF Accepts, Valid, Missing, Stored, JointsOf
<1>2. e.setting = s.setting
  BY <1>1 DEF Accepts, Valid, Stale
<1>3. ASSUME lapses = {}, NEW r \in saved, r.joint = s.joint PROVE e.take >= r.take
  <2>1. PICK x \in file.doc.entries : x.joint = r.joint /\ x.take >= r.take
    BY <1>3 DEF WorkSurvives, Keeps
  <2>2. x = e
    BY <1>1, <1>3, <2>1 DEF TypeOK, OncePerJoint
  <2>q. QED BY <2>1, <2>2
<1>q. QED BY <1>1, <1>2, <1>3

\* Whatever configuration is current, an accepted file has for each of its joints
\* the settings it gives and the latest take reported.
THEOREM AcceptedCalibrated == Spec => []AcceptedIsCalibrated
<1>q. QED BY TypeCorrect, SavedWorkSurvives, AcceptedInv, PTL

\* A session whose file no other one replaced has the file in memory whenever it
\* is not about to write it.
KnowsFile ==
  \A o \in Sessions :
    session[o].pc \in {"capturing", "replaced"} /\ session[o].fresh
      => session[o].doc = file.doc

LEMMA KnowsStep == TypeOK /\ KnowsFile /\ [Next]_vars => KnowsFile'
<1> SUFFICES ASSUME TypeOK, KnowsFile, [Next]_vars PROVE KnowsFile'
  OBVIOUS
<1>0. session \in [Sessions -> SessionStates]
  BY DEF TypeOK
<1>1. ASSUME NEW o \in Sessions, NEW s, Goes(o, s), UNCHANGED file,
             s.pc \in {"capturing", "replaced"} /\ s.fresh => s.doc = file.doc
      PROVE  KnowsFile'
  BY <1>0, <1>1 DEF Goes, KnowsFile
<1>2. ASSUME NEW o \in Sessions, NEW first \in DOMAIN session[o].cfg,
             NEW named \in SUBSET Joints, NEW redo \in BOOLEAN,
             LoadStore(o, first, named, redo)
      PROVE  KnowsFile'
  <2> DEFINE todo == Todo(session[o].cfg, file.doc, first, named, redo)
             s == IF todo = {} THEN Idle
                  ELSE [session[o] EXCEPT !.pc = "capturing", !.doc = file.doc,
                                          !.todo = todo, !.fresh = TRUE]
  <2>1. s.pc = "capturing" => s.doc = file.doc
    BY <1>0 DEF Idle, SessionStates
  <2>2. s.pc # "replaced"
    BY <1>0 DEF Idle, SessionStates
  <2>3. Goes(o, s) /\ UNCHANGED file
    BY <1>2 DEF LoadStore
  <2> HIDE DEF s
  <2>q. QED BY <1>1, <2>1, <2>2, <2>3
<1>3. ASSUME NEW o \in Sessions, Start(o) \/ JointCaptured(o) \/ WriteTemp(o)
      PROVE  KnowsFile'
  <2>1. session'[o].pc \in {"loading", "recorded", "written"}
    <3>1. CASE Start(o)
      BY <1>0, <3>1 DEF Start, Goes, Idle
    <3>2. CASE JointCaptured(o)
      BY <1>0, <3>2 DEF JointCaptured, Goes, SessionStates
    <3>3. CASE WriteTemp(o)
      BY <1>0, <3>3 DEF WriteTemp, Goes, SessionStates
    <3>q. QED BY <1>3, <3>1, <3>2, <3>3
  <2>2. \A p \in Sessions \ {o} : session'[p] = session[p]
    BY <1>0, <1>3 DEF Start, JointCaptured, WriteTemp, Goes
  <2>3. UNCHANGED file
    BY <1>3 DEF Start, JointCaptured, WriteTemp
  <2>q. QED BY <2>1, <2>2, <2>3 DEF KnowsFile
<1>4. ASSUME NEW o \in Sessions, Skip(o) PROVE KnowsFile'
  BY <1>0, <1>4 DEF Skip, Goes, SessionStates, KnowsFile
<1>5. ASSUME NEW o \in Sessions, Replace(o) PROVE KnowsFile'
  <2>1. \A p \in Sessions \ {o} : ~session'[p].fresh
    BY <1>0, <1>5 DEF Replace, SessionStates
  <2>2. session'[o].doc = session[o].doc /\ file'.doc = session[o].doc
    BY <1>0, <1>5 DEF Replace, SessionStates, Whole
  <2>q. QED BY <2>1, <2>2 DEF KnowsFile
<1>6. ASSUME NEW o \in Sessions, SyncDir(o) \/ SyncDirFails(o) PROVE KnowsFile'
  BY <1>0, <1>6 DEF SyncDir, SyncDirFails, Reported, Goes, SessionStates, KnowsFile
<1>7. ASSUME NEW o \in Sessions, Finish(o) \/ Ends(o) PROVE KnowsFile'
  BY <1>1, <1>7 DEF Finish, Ends, Idle
<1>8. CASE EraseFile
  BY <1>8 DEF EraseFile, Working, KnowsFile
<1>9. CASE PowerCut
  BY <1>9 DEF PowerCut, Idle, KnowsFile
<1>10. CASE EditConfig \/ UNCHANGED vars
  BY <1>10 DEF EditConfig, vars, KnowsFile
<1>q. QED
  BY <1>2, <1>3, <1>4, <1>5, <1>6, <1>7, <1>8, <1>9, <1>10 DEF Next, SessionStep

\* A session that exits with "ready" leaves a file the gate accepts.
THEOREM ReadyIsAccepted == Spec => []ReadyMeansReady
<1>1. Init => KnowsFile
  BY DEF Init, Idle, KnowsFile
<1>2. KnowsFile /\ FileIsWhole => ReadyMeansReady
  BY DEF KnowsFile, FileIsWhole, ReadyMeansReady, Ready, Accepts, Valid
<1>q. QED BY <1>1, <1>2, TypeInit, TypeStep, KnowsStep, FileWhole, PTL DEF Spec
=============================================================================
