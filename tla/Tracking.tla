------------------------------- MODULE Tracking -------------------------------
(***************************************************************************)
(* Which files TapeHoard looks after.  A file is ignored or not by the most *)
(* specific tracking rule above it, or else by the global exclusions; the   *)
(* outcome is stored in the row of the file (is_ignored), and the hasher,   *)
(* the backups and the discrepancy screen read only what is stored.         *)
(*                                                                          *)
(* Three writers keep it: a request that adds rules and sets the flag of    *)
(* whatever lies under their paths (batch_track), the recomputation after   *)
(* an edit of the global exclusions, and every scan.  The first never asks  *)
(* which rule decides, the others decide with rules they read earlier.      *)
(*                                                                          *)
(* A path is the sequence of its names.  A request is read in one step and  *)
(* written in another, as its session does.                                 *)
(***************************************************************************)
EXTENDS Naturals, Sequences, SequencesExt, FiniteSets

CONSTANTS
  File,        \* paths of files
  RulePath,    \* paths that rules are made for
  Alike,       \* <<n, m>>: LIKE takes the name m for the name n (case, "_", "%")
  Exclusions,  \* settings of global_exclusions: each a set of files it matches
  Request,     \* sessions of batch_track
  Batch,       \* requests users send: <<tracks, untracks>>
  MaxEdits     \* bound on requests and settings

ASSUME TrackingConstants ==
  /\ \A p \in File \union RulePath : p \in Seq(UNION {Range(q) : q \in File \union RulePath})
  /\ {} \in Exclusions /\ \A e \in Exclusions : e \subseteq File
  /\ \A b \in Batch : b[1] \union b[2] \subseteq RulePath
  /\ MaxEdits \in Nat

VARIABLES
  present,    \* the files on disk; the others have rows and are gone
  rules,      \* tracked_sources: path |-> action
  excluded,   \* the files global_exclusions matches
  rows,       \* the files with a row in filesystem_state
  ignored,    \* FilesystemState.is_ignored
  byPolicy,   \* FilesystemState.is_ignored_by_policy
  request,    \* the sessions of batch_track
  settings,   \* the session of update_settings
  scan,       \* the session of scan_sources
  edits,      \* counter for MaxEdits
  unsettled   \* observed: rows that another rule than the deciding one, or an
              \* outdated reading of the rules, has written last

policy == <<rules, excluded>>
index  == <<rows, ignored, byPolicy>>
vars   == <<present, rules, excluded, rows, ignored, byPolicy, request, settings,
            scan, edits, unsettled>>

Nothing  == [p \in {} |-> "include"]
Action   == {"include", "exclude"}
RuleSets == UNION {[P -> Action] : P \in SUBSET RulePath}

NewRequest  == [pc |-> "idle", tracks |-> {}, untracks |-> {}, existing |-> Nothing, stale |-> FALSE]
NewSettings == [pc |-> "idle", rules |-> Nothing, excluded |-> {}, rows |-> {}, stale |-> FALSE]
NewScan     == [pc |-> "idle", rules |-> Nothing, excluded |-> {}, todo |-> {},
                found |-> Nothing, loaded |-> Nothing, stale |-> FALSE]

Init ==
  /\ present \in SUBSET File
  /\ rules = Nothing /\ excluded = {}
  /\ rows = File \ present
  /\ ignored  = [f \in File |-> FALSE]
  /\ byPolicy = [f \in File |-> FALSE]
  /\ request  = [r \in Request |-> NewRequest]
  /\ settings = NewSettings
  /\ scan     = NewScan
  /\ edits = 0
  /\ unsettled = {}

-----------------------------------------------------------------------------
(* The rules.                                                               *)

Covers(p, f) == IsPrefix(p, f)

\* file_path = :p OR file_path LIKE :p/%
Matches(p, f) ==
  \/ p = f
  \/ /\ Len(p) < Len(f)
     /\ \A i \in DOMAIN p : p[i] = f[i] \/ <<p[i], f[i]>> \in Alike

\* get_ignored_status and resolve_tracking: the longest rule path that covers.
Applicable(ruleMap, f) == {p \in DOMAIN ruleMap : Covers(p, f)}

IgnoredStatus(ruleMap, matched, f) ==
  LET applicable == Applicable(ruleMap, f) IN
  IF applicable = {} THEN f \in matched
  ELSE LET first == CHOOSE p \in applicable : \A q \in applicable : Len(q) <= Len(p)
       IN  ruleMap[first] = "exclude"

\* What the rules of this moment say of f: the innermost directory with a rule
\* decides, and without one the exclusions.
Decides(p, f) ==
  /\ p \in DOMAIN rules /\ Covers(p, f)
  /\ \A q \in DOMAIN rules : Covers(p, q) /\ Covers(q, f) => q = p
Tracked(f)   == \E p \in RulePath : Decides(p, f) /\ rules[p] = "include"
Untracked(f) == \E p \in RulePath : Decides(p, f) /\ rules[p] = "exclude"
ToBeIgnored(f) == Untracked(f) \/ (f \in excluded /\ ~Tracked(f))

-----------------------------------------------------------------------------
(* batch_track                                                              *)

\* The rules the request names are read.
BatchRead(r, tracks, untracks) ==
  /\ request[r].pc = "idle"
  /\ edits < MaxEdits /\ edits' = edits + 1
  /\ request' = [request EXCEPT ![r] =
       [pc |-> "read", tracks |-> tracks, untracks |-> untracks, stale |-> FALSE,
        existing |-> Restrict(rules, DOMAIN rules \intersect (tracks \union untracks))]]
  /\ UNCHANGED <<present, policy, index, settings, scan, unsettled>>

Requested(q, p) == IF p \in q.untracks THEN "exclude" ELSE "include"

\* What is written: new rows, and the actions that differ from what was read.
NewRules(q) == (q.tracks \union q.untracks) \ DOMAIN q.existing
Changed(q)  == {p \in DOMAIN q.existing : q.existing[p] # Requested(q, p)}

\* A unique path refuses the transaction: it is in both lists, or another
\* request has made a rule for it.
Refused(q) ==
  \/ NewRules(q) \intersect q.tracks \intersect q.untracks # {}
  \/ NewRules(q) \intersect DOMAIN rules # {}

\* Everyone who has read the rules before now has them outdated.
Outdate(others) ==
  /\ request'  = [r \in Request |->
       IF r \in others /\ request[r].pc # "idle" THEN [request[r] EXCEPT !.stale = TRUE]
       ELSE IF r \in others THEN request[r] ELSE NewRequest]
  /\ scan' = [scan EXCEPT !.stale = scan.pc # "idle"]

UnderAny(paths, f) == \E p \in paths : Matches(p, f)

\* The flag of every row under the paths, tracks first.
FlagsTracksLast(q) ==
  [f \in File |->
    IF f \in rows /\ UnderAny(q.tracks, f) THEN FALSE
    ELSE IF f \in rows /\ UnderAny(q.untracks, f) THEN TRUE ELSE ignored[f]]

Flags(q) ==
  [f \in File |->
    IF f \in rows /\ UnderAny(q.untracks, f) THEN TRUE
    ELSE IF f \in rows /\ UnderAny(q.tracks, f) THEN FALSE ELSE ignored[f]]

\* The request sets the flag of f by the rule that decides for it.
Rightly(q, f) ==
  /\ ~q.stale
  /\ \E p \in q.tracks \union q.untracks :
       /\ Decides(p, f)'
       /\ \A o \in q.untracks : Matches(o, f) => p \in q.untracks

BatchWrite(r) ==
  LET q == request[r] IN
  /\ q.pc = "read" /\ ~Refused(q)
  /\ rules' = [p \in DOMAIN rules \union NewRules(q) |->
                IF p \in NewRules(q) \union Changed(q) THEN Requested(q, p) ELSE rules[p]]
  /\ ignored' = Flags(q)
  /\ unsettled' = {f \in File :
       IF UnderAny(q.tracks \union q.untracks, f) THEN ~Rightly(q, f) ELSE f \in unsettled}
  /\ Outdate(Request \ {r})
  /\ settings' = [settings EXCEPT !.stale = settings.pc # "idle"]
  /\ UNCHANGED <<present, excluded, rows, byPolicy, edits>>

BatchRefused(r) ==
  /\ request[r].pc = "read" /\ Refused(request[r])
  /\ request' = [request EXCEPT ![r] = NewRequest]
  /\ UNCHANGED <<present, policy, index, settings, scan, edits, unsettled>>

-----------------------------------------------------------------------------
(* update_settings of global_exclusions, and recompute_exclusion_policy     *)

SettingsCommit(e) ==
  /\ settings.pc = "idle" /\ e # excluded
  /\ edits < MaxEdits /\ edits' = edits + 1
  /\ excluded' = e
  /\ unsettled' = unsettled \union
       {f \in File : \A p \in DOMAIN rules : ~Covers(p, f)}
  /\ settings' = [NewSettings EXCEPT !.pc = "saved"]
  /\ Outdate(Request)
  /\ UNCHANGED <<present, rules, index>>

RecomputeRead ==
  /\ settings.pc = "saved"
  /\ settings' = [pc |-> "read", rules |-> rules, excluded |-> excluded, rows |-> rows,
                  stale |-> FALSE]
  /\ UNCHANGED <<present, policy, index, request, scan, edits, unsettled>>

Settle(written, stale) ==
  unsettled' = IF stale THEN unsettled \union written ELSE unsettled \ written

RecomputeWriteAll ==
  /\ settings.pc = "read"
  /\ ignored'  = [f \in File |-> IgnoredStatus(settings.rules, settings.excluded, f)]
  /\ byPolicy' = [f \in File |-> f \in settings.excluded]
  /\ Settle(settings.rows, settings.stale)
  /\ settings' = NewSettings
  /\ UNCHANGED <<present, policy, rows, request, scan, edits>>

RecomputeWrite ==
  /\ settings.pc = "read"
  /\ ignored'  = [f \in File |-> IF f \in settings.rows
                    THEN IgnoredStatus(settings.rules, settings.excluded, f) ELSE ignored[f]]
  /\ byPolicy' = [f \in File |-> IF f \in settings.rows
                    THEN f \in settings.excluded ELSE byPolicy[f]]
  /\ Settle(settings.rows, settings.stale)
  /\ settings' = NewSettings
  /\ UNCHANGED <<present, policy, rows, request, scan, edits>>

-----------------------------------------------------------------------------
(* scan_sources, as far as the rules go; batches of one file.               *)

ScanStart ==
  /\ scan.pc = "idle"
  /\ scan' = [NewScan EXCEPT !.pc = "walking", !.rules = rules, !.excluded = excluded,
                             !.todo = present]
  /\ UNCHANGED <<present, policy, index, request, settings, edits, unsettled>>

ScanFile(f) ==
  /\ scan.pc = "walking" /\ f \in scan.todo
  /\ scan' = [scan EXCEPT !.pc = "found", !.todo = @ \ {f},
                !.found = [g \in {f} |-> IgnoredStatus(scan.rules, scan.excluded, g)]]
  /\ UNCHANGED <<present, policy, index, request, settings, edits, unsettled>>

\* _sync_metadata_batch reads the row; the commit writes it as new, or the flag
\* where it differs from what was read.
SyncRead ==
  /\ scan.pc = "found"
  /\ scan' = [scan EXCEPT !.pc = "loaded",
                !.loaded = Restrict(ignored, DOMAIN scan.found \intersect rows)]
  /\ UNCHANGED <<present, policy, index, request, settings, edits, unsettled>>

SyncFlag(f) ==
  IF f \in DOMAIN scan.loaded /\ scan.loaded[f] = scan.found[f]
  THEN ignored[f] ELSE scan.found[f]

\* The files that are left as the scan found them: a flag another session has
\* changed since SyncRead is overwritten only if it had to change then.
Decided == {f \in DOMAIN scan.found : SyncFlag(f) = scan.found[f]}

SyncCommitNewOnly ==
  LET written == DOMAIN scan.found IN
  /\ scan.pc = "loaded"
  /\ rows'    = rows \union written
  /\ ignored' = [f \in File |-> IF f \in written \ rows THEN SyncFlag(f) ELSE ignored[f]]
  /\ Settle(Decided, scan.stale)
  /\ scan' = [scan EXCEPT !.pc = "walking", !.found = Nothing, !.loaded = Nothing]
  /\ UNCHANGED <<present, policy, byPolicy, request, settings, edits>>

SyncCommit ==
  LET written == DOMAIN scan.found IN
  /\ scan.pc = "loaded"
  /\ rows'    = rows \union written
  /\ ignored' = [f \in File |-> IF f \in written THEN SyncFlag(f) ELSE ignored[f]]
  /\ Settle(Decided, scan.stale)
  /\ scan' = [scan EXCEPT !.pc = "walking", !.found = Nothing, !.loaded = Nothing]
  /\ UNCHANGED <<present, policy, byPolicy, request, settings, edits>>

\* The walk is over (a cancellation, which ends it earlier, is left out).
ScanEnd ==
  /\ scan.pc = "walking" /\ scan.todo = {}
  /\ scan' = NewScan
  /\ UNCHANGED <<present, policy, index, request, settings, edits, unsettled>>

ScanStep == (\E f \in File : ScanFile(f)) \/ SyncRead \/ SyncCommit \/ ScanEnd

-----------------------------------------------------------------------------
BatchStep(r) == BatchWrite(r) \/ BatchRefused(r)
RecomputeStep == RecomputeRead \/ RecomputeWrite

Edit ==
  \/ \E r \in Request, b \in Batch : BatchRead(r, b[1], b[2])
  \/ \E e \in Exclusions : SettingsCommit(e)

Next ==
  \/ Edit
  \/ \E r \in Request : BatchStep(r)
  \/ RecomputeStep
  \/ ScanStart \/ ScanStep

\* Requests are carried through, a scan goes on, and the schedule starts the next.
Fairness ==
  /\ \A r \in Request : WF_vars(BatchStep(r))
  /\ WF_vars(RecomputeStep)
  /\ WF_vars(ScanStart) /\ WF_vars(ScanStep)

Spec == Init /\ [][Next]_vars /\ Fairness

-----------------------------------------------------------------------------
(* Properties                                                               *)

\* Types; and a row that does not exist has no flags (an UPDATE makes no rows).
TypeOK ==
  /\ present \subseteq File /\ rows \subseteq File
  /\ rules \in RuleSets /\ excluded \in Exclusions
  /\ ignored \in [File -> BOOLEAN] /\ byPolicy \in [File -> BOOLEAN]
  /\ unsettled \subseteq File
  /\ \A f \in File \ rows : ~ignored[f] /\ ~byPolicy[f]
  /\ DOMAIN scan.loaded \subseteq DOMAIN scan.found
  /\ edits \in 0..MaxEdits

\* The stored flag is what the innermost rule or the exclusions say, except for
\* rows that a request flagged past a rule more specific than its own (or past
\* a name LIKE confuses), and rows written from rules that had changed since.
FlagsFollowRules ==
  \A f \in rows \ unsettled : ignored[f] = ToBeIgnored(f)

\* Once the rules are left alone, the scans to come bring every file that is on
\* disk to what the rules say, whatever requests and outdated sessions have left.
FlagsSettle ==
  <>[](\A f \in present : f \in rows /\ ignored[f] = ToBeIgnored(f))
=============================================================================
