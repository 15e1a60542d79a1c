------------------------------ MODULE Calibration ------------------------------
(***************************************************************************)
(* The calibration file of humanoid_calibration: the sessions of           *)
(* calibrate_cli.py that fill it joint by joint, the disk it is written to *)
(* through calibration_store.py, the joint configuration it is checked     *)
(* against, and the verdict of guard.py that lets a node start.            *)
(*                                                                         *)
(* What a joint's capture measures is a take, a number; the capture itself *)
(* is modelled in JointCapture.  A configuration is the sequence of its    *)
(* joints with their settings (servo id, limits, direction, counts per     *)
(* turn), which is also what its fingerprint is a hash of.                 *)
(***************************************************************************)
EXTENDS Naturals, Sequences

CONSTANTS
  Joints,     \* the joint names
  Settings,   \* what joint_limits.yaml may say of a joint
  Configs,    \* the configurations a run considers
  Sessions,   \* the terminals calibrate may run in
  MaxTakes,   \* bound: joints captured in a behaviour
  MaxEdits,   \* bound: edits of joint_limits.yaml
  MaxCuts     \* bound: power cuts

Items(c) == { c[i] : i \in DOMAIN c }
JointsOf(c) == { s.joint : s \in Items(c) }

\* load_config refuses an empty list of joints and a joint named twice.
ASSUME ConfigsAssumption ==
  \A c \in Configs :
    /\ c \in Seq([joint : Joints, setting : Settings])
    /\ c # << >>
    /\ \A i, k \in DOMAIN c : c[i].joint = c[k].joint => i = k

ASSUME BoundsAssumption == MaxTakes \in Nat /\ MaxEdits \in Nat /\ MaxCuts \in Nat

\* A file load_config raises on; also the fingerprint of a store never written.
NoConfig == << >>

Entries == [joint : Joints, setting : Settings, take : 0 .. MaxTakes]

Docs == [ version : {"old", "current"}, fingerprint : Configs \cup {NoConfig},
          entries : SUBSET Entries ]

\* CalibrationStore() without a file.
Empty == [version |-> "current", fingerprint |-> NoConfig, entries |-> {}]

Absent == [state |-> "absent", doc |-> Empty]
Torn == [state |-> "torn", doc |-> Empty]
Whole(d) == [state |-> "whole", doc |-> d]

-----------------------------------------------------------------------------
(* CalibrationStore: record and validate.                                  *)

Stored(d) == { e.joint : e \in d.entries }

Missing(c, d) == JointsOf(c) \ Stored(d)

\* Joints whose own numbers moved since they were captured.
Stale(c, d) ==
  { s.joint : s \in { t \in Items(c) :
      \E e \in d.entries : e.joint = t.joint /\ e.setting # t.setting } }

\* Faulty variant of Valid: the per-joint comparison left to the fingerprint.
ValidByFingerprint(f, c, d) ==
  f.state # "absent" /\ d.version = "current" /\ d.fingerprint = c /\ Missing(c, d) = {}

\* ValidationReport.ok: f is the file now, d the store as it was loaded.
Valid(f, c, d) ==
  /\ f.state # "absent"
  /\ d.version = "current"
  /\ d.fingerprint = c
  /\ Missing(c, d) = {}
  /\ Stale(c, d) = {}

\* check(): what require_calibration, the launch gate and the status node go by;
\* a file that cannot be read raises.
Accepts(f, c) == f.state # "torn" /\ Valid(f, c, f.doc)

Record(d, c, s, t) ==
  [ version |-> "current",
    fingerprint |-> c,
    entries |-> { e \in d.entries : e.joint # s.joint }
                  \cup {[joint |-> s.joint, setting |-> s.setting, take |-> t]} ]

-----------------------------------------------------------------------------
VARIABLES
  config,    \* joint_limits.yaml
  file,      \* calibration.yaml, as a process that opens it finds it
  onDisk,    \* what a power cut now may leave in its place
  session,   \* the calibrate processes
  takes,     \* joints captured so far
  edits, cuts,
  saved,     \* history: for each joint, the take last reported as saved
  lapses     \* history: what went wrong outside the store's own control

vars == <<config, file, onDisk, session, takes, edits, cuts, saved, lapses>>

Working == {"loading", "capturing", "recorded", "written", "replaced"}

\* fresh: no other session has replaced the file since this one knew it.
Idle == [ pc |-> "off", cfg |-> NoConfig, doc |-> Empty, todo |-> {},
          synced |-> FALSE, fresh |-> FALSE ]

\* A file of an earlier version, complete for configuration c.
OldFile(c) ==
  Whole([ version |-> "old", fingerprint |-> c,
          entries |-> { [joint |-> s.joint, setting |-> s.setting, take |-> 0] :
                        s \in Items(c) } ])

Init ==
  /\ config \in Configs
  /\ file \in {Absent, OldFile(config)}
  /\ onDisk = {file}
  /\ session = [o \in Sessions |-> Idle]
  /\ takes = 0 /\ edits = 0 /\ cuts = 0
  /\ saved = {} /\ lapses = {}

-----------------------------------------------------------------------------
(* A session of calibrate.                                                 *)

Goes(o, s) == session' = [session EXCEPT ![o] = s]

Start(o) ==
  /\ session[o].pc = "off"
  /\ config # NoConfig
  /\ Goes(o, [Idle EXCEPT !.pc = "loading", !.cfg = config])
  /\ UNCHANGED <<config, file, onDisk, takes, edits, cuts, saved, lapses>>

\* The joints to do: from --start-at on, those of --only, and, unless --only
\* or --force asks for a redo, none that is stored and not stale.
Todo(c, d, first, named, redo) ==
  { c[i].joint : i \in first .. Len(c) } \cap
    (IF redo THEN named ELSE named \ (Stored(d) \ Stale(c, d)))

LoadStore(o, first, named, redo) ==
  LET s == session[o]
      todo == Todo(s.cfg, file.doc, first, named, redo)
  IN /\ s.pc = "loading"
     /\ file.state # "torn"
     /\ redo \/ named = JointsOf(s.cfg)
     /\ Goes(o, IF todo = {} THEN Idle
                ELSE [s EXCEPT !.pc = "capturing", !.doc = file.doc,
                               !.todo = todo, !.fresh = TRUE])
     /\ UNCHANGED <<config, file, onDisk, takes, edits, cuts, saved, lapses>>

\* The joint a session is at: the first of those it has to do.
IsAt(s, i) ==
  /\ i \in DOMAIN s.cfg
  /\ s.cfg[i].joint \in s.todo
  /\ \A k \in DOMAIN s.cfg : k < i => s.cfg[k].joint \notin s.todo

Skip(o) ==
  LET s == session[o]
  IN /\ s.pc = "capturing"
     /\ \E i \in DOMAIN s.cfg :
          /\ IsAt(s, i)
          /\ Goes(o, [s EXCEPT !.todo = @ \ {s.cfg[i].joint}])
     /\ UNCHANGED <<config, file, onDisk, takes, edits, cuts, saved, lapses>>

\* run_joint has its three readings and records them in the store in memory.
JointCaptured(o) ==
  LET s == session[o]
  IN /\ s.pc = "capturing"
     /\ takes < MaxTakes
     /\ takes' = takes + 1
     /\ \E i \in DOMAIN s.cfg :
          /\ IsAt(s, i)
          /\ Goes(o, [s EXCEPT !.pc = "recorded",
                               !.doc = Record(@, s.cfg, s.cfg[i], takes')])
     /\ UNCHANGED <<config, file, onDisk, edits, cuts, saved, lapses>>

\* Faulty variant of WriteTemp: the file is not synchronised.
WriteTempUnsynced(o) ==
  /\ session[o].pc = "recorded"
  /\ Goes(o, [session[o] EXCEPT !.pc = "written"])
  /\ UNCHANGED <<config, file, onDisk, takes, edits, cuts, saved, lapses>>

\* save(): the temporary file is written and synchronised ...
WriteTemp(o) ==
  /\ session[o].pc = "recorded"
  /\ Goes(o, [session[o] EXCEPT !.pc = "written", !.synced = TRUE])
  /\ UNCHANGED <<config, file, onDisk, takes, edits, cuts, saved, lapses>>

\* Faulty variant of Replace: save() before record().
ReplaceTooEarly(o) ==
  LET s == session[o]
      older == { e \in s.doc.entries : e.take < takes }
  IN /\ s.pc = "written"
     /\ file' = Whole([s.doc EXCEPT !.entries = older])
     /\ onDisk' = onDisk \cup {file'}
     /\ session' = [ p \in Sessions |->
          IF p = o THEN [s EXCEPT !.pc = "replaced", !.synced = FALSE, !.fresh = TRUE]
          ELSE [session[p] EXCEPT !.fresh = FALSE] ]
     /\ lapses' = lapses \cup (IF s.fresh THEN {} ELSE {"overlap"})
     /\ UNCHANGED <<config, takes, edits, cuts, saved>>

\* ... renamed over the file, which a power cut may still undo ...
Replace(o) ==
  LET s == session[o]
  IN /\ s.pc = "written"
     /\ file' = Whole(s.doc)
     /\ onDisk' = onDisk \cup {file'} \cup (IF s.synced THEN {} ELSE {Torn})
     /\ session' = [ p \in Sessions |->
          IF p = o THEN [s EXCEPT !.pc = "replaced", !.synced = FALSE, !.fresh = TRUE]
          ELSE [session[p] EXCEPT !.fresh = FALSE] ]
     /\ lapses' = lapses \cup (IF s.fresh THEN {} ELSE {"overlap"})
     /\ UNCHANGED <<config, takes, edits, cuts, saved>>

\* run_joint prints that joint i is saved and returns.
Reported(o, i) ==
  LET s == session[o]
      mine == { e \in s.doc.entries : e.joint = s.cfg[i].joint }
  IN /\ IsAt(s, i)
     /\ Goes(o, [s EXCEPT !.pc = "capturing", !.todo = @ \ {s.cfg[i].joint}])
     /\ saved' = { r \in saved : r.joint # s.cfg[i].joint }
                   \cup { [joint |-> e.joint, take |-> e.take] : e \in mine }

\* Faulty variant of SyncDir: the directory is not synchronised.
SyncDirForgotten(o) ==
  /\ session[o].pc = "replaced"
  /\ \E i \in DOMAIN session[o].cfg : Reported(o, i)
  /\ UNCHANGED <<config, file, onDisk, takes, edits, cuts, lapses>>

\* ... and made durable by synchronising the directory.
SyncDir(o) ==
  /\ session[o].pc = "replaced"
  /\ \E i \in DOMAIN session[o].cfg : Reported(o, i)
  /\ onDisk' = {file}
  /\ UNCHANGED <<config, file, takes, edits, cuts, lapses>>

\* An OSError of that last step is ignored.
SyncDirFails(o) ==
  /\ session[o].pc = "replaced"
  /\ \E i \in DOMAIN session[o].cfg : Reported(o, i)
  /\ lapses' = lapses \cup {"unsynced"}
  /\ UNCHANGED <<config, file, onDisk, takes, edits, cuts>>

\* Every joint is done or skipped; the exit code is Ready(s).
Ready(s) == Valid(file, s.cfg, s.doc)

Finish(o) ==
  LET s == session[o]
  IN /\ s.pc = "capturing"
     /\ s.todo = {}
     /\ Goes(o, Idle)
     /\ UNCHANGED <<config, file, onDisk, takes, edits, cuts, saved, lapses>>

\* q, Ctrl-C, a bus that fails its check, an exception, a kill: at any moment.
Ends(o) ==
  /\ session[o].pc \in Working
  /\ Goes(o, Idle)
  /\ UNCHANGED <<config, file, onDisk, takes, edits, cuts, saved, lapses>>

(* The world: the configuration is edited, the file erased to start over,   *)
(* the power cut.                                                          *)

EditConfig ==
  /\ edits < MaxEdits
  /\ edits' = edits + 1
  /\ config' \in (Configs \cup {NoConfig}) \ {config}
  /\ UNCHANGED <<file, onDisk, session, takes, cuts, saved, lapses>>

EraseFile ==
  /\ \A o \in Sessions : session[o].pc \notin Working
  /\ file.state # "absent"
  /\ edits < MaxEdits
  /\ edits' = edits + 1
  /\ file' = Absent
  /\ onDisk' = onDisk \cup {Absent}
  /\ saved' = {}
  /\ UNCHANGED <<config, session, takes, cuts, lapses>>

PowerCut ==
  /\ cuts < MaxCuts
  /\ cuts' = cuts + 1
  /\ file' \in onDisk
  /\ onDisk' = {file'}
  /\ session' = [o \in Sessions |-> Idle]
  /\ UNCHANGED <<config, takes, edits, saved, lapses>>

SessionStep(o) ==
  \/ Start(o) \/ Skip(o) \/ JointCaptured(o)
  \/ \E first \in DOMAIN session[o].cfg, named \in SUBSET Joints, redo \in BOOLEAN :
       LoadStore(o, first, named, redo)
  \/ WriteTemp(o) \/ Replace(o) \/ SyncDir(o) \/ SyncDirFails(o)
  \/ Finish(o) \/ Ends(o)

Next ==
  \/ \E o \in Sessions : SessionStep(o)
  \/ EditConfig \/ EraseFile \/ PowerCut

Spec == Init /\ [][Next]_vars

-----------------------------------------------------------------------------
(* Safety properties.                                                      *)

Contents == [state : {"absent", "torn", "whole"}, doc : Docs]

SessionStates ==
  [ pc : {"off"} \cup Working, cfg : Configs \cup {NoConfig}, doc : Docs,
    todo : SUBSET Joints, synced : BOOLEAN, fresh : BOOLEAN ]

OncePerJoint(d) == \A e, f \in d.entries : e.joint = f.joint => e = f

\* Every component has its type; no document, on the disk or in memory, names a
\* joint twice.
TypeOK ==
  /\ config \in Configs \cup {NoConfig}
  /\ file \in Contents /\ onDisk \subseteq Contents
  /\ session \in [Sessions -> SessionStates]
  /\ takes \in 0 .. MaxTakes /\ edits \in 0 .. MaxEdits /\ cuts \in 0 .. MaxCuts
  /\ saved \subseteq [joint : Joints, take : 0 .. MaxTakes]
  /\ lapses \subseteq {"overlap", "unsynced"}
  /\ OncePerJoint(file.doc)
  /\ \A f \in onDisk : OncePerJoint(f.doc)
  /\ \A o \in Sessions : OncePerJoint(session[o].doc)

\* Power lost at any point of save() leaves a file that can be read: "the file is
\* either the old one or the new one" (calibration_store.py:13-15).
FileIsWhole == \A f \in onDisk \cup {file} : f.state # "torn"

Keeps(f, r) ==
  /\ f.state = "whole"
  /\ \E e \in f.doc.entries : e.joint = r.joint /\ e.take >= r.take

\* A joint reported as saved stays in the file, in that take or a later one,
\* through quitting, kills and power cuts: "quitting or losing power never costs
\* you completed work" (README.md:100).  Two things break the promise, and no
\* third: a session that replaces a file another one has replaced meanwhile, and
\* a directory that could not be synchronised.
WorkSurvives == lapses = {} => \A r \in saved : Keeps(file, r)

\* What the gate accepts is calibrated: whatever configuration a node has read
\* when it comes to the file, an accepted file has for every joint of it an entry
\* captured under exactly the settings it gives the joint.  The fingerprint does
\* not ensure that: one joint recaptured renews it for all (record(),
\* calibration_store.py:256-260).
AcceptedIsCalibrated ==
  \A c \in Configs :
    Accepts(file, c) =>
      \A s \in Items(c) : \E e \in file.doc.entries :
        /\ e.joint = s.joint /\ e.setting = s.setting
        /\ lapses = {} => \A r \in saved : r.joint = s.joint => e.take >= r.take

\* A session about to exit with "ready", judged on its memory, leaves a file the
\* gate accepts, unless another session replaced the file under it.
ReadyMeansReady ==
  \A o \in Sessions :
    LET s == session[o]
    IN s.pc = "capturing" /\ s.todo = {} /\ s.fresh /\ Ready(s) => Accepts(file, s.cfg)
=============================================================================
