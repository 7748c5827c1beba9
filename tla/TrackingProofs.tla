---------------------------- MODULE TrackingProofs ----------------------------
(***************************************************************************)
(* The stored flags follow the rules, for any files, rules, exclusions and  *)
(* requests, and whatever LIKE confuses.                                    *)
(*                                                                          *)
(* First that the two ways to say which rule decides agree: the longest     *)
(* path that the code picks, and the innermost directory.  That there is a  *)
(* longest needs the least-number principle.  Then that a session that      *)
(* nobody has outdated knows the rules as they are.                         *)
(***************************************************************************)
EXTENDS Tracking, SequenceTheorems, FiniteSetTheorems, WellFoundedInduction, TLAPS

-----------------------------------------------------------------------------
(* Least numbers and paths                                                  *)

\* The least-number principle, from the intervals below the numbers.
LEMMA LeastNumber ==
  ASSUME NEW S \in SUBSET Nat, S # {}
  PROVE  \E m \in S : \A n \in S : m <= n
<1> DEFINE Below == {0 .. n : n \in S}
<1>1. \A n \in Nat : 0 .. n \in SUBSET Nat /\ IsFiniteSet(0 .. n)
  BY FS_Interval
<1>2. Below \subseteq FiniteSubsetsOf(Nat) /\ Below # {}
  BY <1>1 DEF FiniteSubsetsOf
<1>3. PICK x \in Below : \A y \in Below : <<y, x>> \notin StrictSubsetOrdering(Nat)
  <2> HIDE DEF Below
  <2> QED
    BY <1>2, FS_StrictSubsetOrderingWellFounded, WFMin
<1>4. PICK m \in S : x = 0 .. m
  OBVIOUS
<1>5. ASSUME NEW n \in S, ~(m <= n)
      PROVE  FALSE
  <2>1. m \in Nat /\ n \in Nat
    OBVIOUS
  <2>2. 0 .. n \in SUBSET Nat /\ 0 .. m \in SUBSET Nat
    BY <2>1
  <2>3. 0 .. n \subseteq 0 .. m
    BY <1>5, <2>1
  <2>4. m \in 0 .. m /\ m \notin 0 .. n
    BY <1>5, <2>1
  <2>5. <<0 .. n, 0 .. m>> \in StrictSubsetOrdering(Nat)
    BY <2>2, <2>3, <2>4 DEF StrictSubsetOrdering
  <2> QED
    BY <1>3, <1>4, <2>5
<1> QED
  BY <1>5

\* The names that paths are made of.
Name == UNION {Range(q) : q \in File \union RulePath}

\* Covers, name by name.
LEMMA CoversDef ==
  ASSUME NEW p \in Seq(Name), NEW f \in Seq(Name)
  PROVE  /\ Len(p) \in Nat /\ Len(f) \in Nat /\ DOMAIN p = 1 .. Len(p)
         /\ Covers(p, f) <=> Len(p) <= Len(f) /\ \A i \in 1 .. Len(p) : p[i] = f[i]
<1>1. /\ Len(p) \in Nat /\ p \in [1 .. Len(p) -> Name] /\ DOMAIN p = 1 .. Len(p)
      /\ Len(f) \in Nat /\ f \in [1 .. Len(f) -> Name]
  BY LenProperties
<1>2. /\ SubSeq(p, 1, Len(p)) \in Seq(Name)
      /\ Len(SubSeq(p, 1, Len(p))) = Len(p)
      /\ \A i \in 1 .. Len(p) : SubSeq(p, 1, Len(p))[i] = p[i]
  <2>1. \A i \in 1 .. Len(p) : p[i] \in Name
    BY <1>1
  <2>2. /\ SubSeq(p, 1, Len(p)) \in Seq(Name)
        /\ Len(SubSeq(p, 1, Len(p))) = IF 1 <= Len(p) THEN Len(p) - 1 + 1 ELSE 0
        /\ \A i \in 1 .. Len(p) - 1 + 1 : SubSeq(p, 1, Len(p))[i] = p[1 + i - 1]
    BY <1>1, <2>1, SubSeqProperties
  <2> HIDE DEF Name
  <2> QED
    BY <1>1, <2>2
<1>3. ASSUME Len(p) <= Len(f)
      PROVE  /\ SubSeq(f, 1, Len(p)) \in Seq(Name)
             /\ Len(SubSeq(f, 1, Len(p))) = Len(p)
             /\ \A i \in 1 .. Len(p) : SubSeq(f, 1, Len(p))[i] = f[i]
  <2>1. \A i \in 1 .. Len(p) : f[i] \in Name
    BY <1>1, <1>3
  <2>2. /\ SubSeq(f, 1, Len(p)) \in Seq(Name)
        /\ Len(SubSeq(f, 1, Len(p))) = IF 1 <= Len(p) THEN Len(p) - 1 + 1 ELSE 0
        /\ \A i \in 1 .. Len(p) - 1 + 1 : SubSeq(f, 1, Len(p))[i] = f[1 + i - 1]
    BY <1>1, <2>1, SubSeqProperties
  <2> QED
    BY <1>1, <2>2
<1>4. Covers(p, f) => Len(p) <= Len(f) /\ \A i \in 1 .. Len(p) : p[i] = f[i]
  BY <1>1, <1>2, <1>3 DEF Covers, IsPrefix
<1>5. ASSUME Len(p) <= Len(f), \A i \in 1 .. Len(p) : p[i] = f[i]
      PROVE  Covers(p, f)
  <2>1. SubSeq(p, 1, Len(p)) = SubSeq(f, 1, Len(p))
    BY <1>2, <1>3, <1>5, SeqEqual
  <2> QED
    BY <1>5, <2>1 DEF Covers, IsPrefix
<1> QED
  BY <1>1, <1>4, <1>5

\* Paths are sequences of names.
LEMMA Paths == File \subseteq Seq(Name) /\ RulePath \subseteq Seq(Name)
BY TrackingConstants DEF Name

\* Of two directories above a file the shorter is above the longer.
LEMMA CoversChain ==
  ASSUME NEW p \in Seq(Name), NEW q \in Seq(Name), NEW f \in Seq(Name),
         Covers(p, f), Covers(q, f)
  PROVE  /\ Len(p) <= Len(q) => Covers(p, q)
         /\ Len(p) = Len(q) => p = q
<1>1. /\ Len(p) \in Nat /\ Len(p) <= Len(f) /\ \A i \in 1 .. Len(p) : p[i] = f[i]
      /\ Len(q) \in Nat /\ Len(q) <= Len(f) /\ \A i \in 1 .. Len(q) : q[i] = f[i]
      /\ Len(f) \in Nat
  BY CoversDef
<1>2. ASSUME Len(p) <= Len(q)
      PROVE  \A i \in 1 .. Len(p) : p[i] = q[i]
  BY <1>1, <1>2
<1>3. ASSUME Len(p) = Len(q) PROVE p = q
  BY <1>1, <1>2, <1>3, SeqEqual
<1> QED
  BY <1>2, <1>3, CoversDef

\* A path that covers another is not longer.
LEMMA CoversShorter ==
  ASSUME NEW p \in Seq(Name), NEW q \in Seq(Name), Covers(p, q)
  PROVE  Len(p) \in Nat /\ Len(q) \in Nat /\ Len(p) <= Len(q)
BY CoversDef

\* LIKE takes whatever is under the path, and perhaps more.
LEMMA CoversMatches ==
  ASSUME NEW p \in Seq(Name), NEW f \in Seq(Name), Covers(p, f)
  PROVE  Matches(p, f)
<1>1. /\ Len(p) \in Nat /\ Len(f) \in Nat /\ DOMAIN p = 1 .. Len(p)
      /\ Len(p) <= Len(f) /\ \A i \in 1 .. Len(p) : p[i] = f[i]
  BY CoversDef
<1>2. CASE Len(p) = Len(f)
  BY <1>1, <1>2, SeqEqual DEF Matches
<1>3. CASE Len(p) < Len(f)
  BY <1>1, <1>3 DEF Matches
<1> QED
  BY <1>1, <1>2, <1>3

\* Among the directories above a file there is a longest.
LEMMA Longest ==
  ASSUME NEW f \in Seq(Name), NEW P \in SUBSET Seq(Name), P # {},
         \A p \in P : Covers(p, f)
  PROVE  \E p \in P : \A q \in P : Len(q) <= Len(p)
<1> DEFINE Rest == {Len(f) - Len(p) : p \in P}
<1>1. \A p \in P : Len(p) \in Nat /\ Len(f) \in Nat /\ Len(p) <= Len(f)
  BY CoversShorter
<1>2. Rest \in SUBSET Nat /\ Rest # {}
  BY <1>1
<1>3. PICK m \in Rest : \A n \in Rest : m <= n
  <2> HIDE DEF Rest
  <2> QED
    BY <1>2, LeastNumber
<1>4. PICK p \in P : m = Len(f) - Len(p)
  OBVIOUS
<1>5. \A q \in P : Len(f) - Len(p) <= Len(f) - Len(q)
  BY <1>3, <1>4
<1> QED
  BY <1>1, <1>5

-----------------------------------------------------------------------------
(* The rule that decides                                                    *)

\* Decides and ToBeIgnored, of any rules and exclusions.
Decider(m, p, f) ==
  /\ p \in DOMAIN m /\ Covers(p, f)
  /\ \A q \in DOMAIN m : Covers(p, q) /\ Covers(q, f) => q = p

Ignores(m, e, f) ==
  \/ \E p \in RulePath : Decider(m, p, f) /\ m[p] = "exclude"
  \/ f \in e /\ ~\E p \in RulePath : Decider(m, p, f) /\ m[p] = "include"

\* Rules have paths and actions.
LEMMA RuleSet ==
  ASSUME NEW m \in RuleSets
  PROVE  DOMAIN m \in SUBSET RulePath /\ \A p \in DOMAIN m : m[p] \in Action
BY DEF RuleSets

\* They are what the module states of its own.
LEMMA Now ==
  \A f : (ToBeIgnored(f) <=> Ignores(rules, excluded, f))
         /\ (ToBeIgnored(f)' <=> Ignores(rules', excluded', f))
BY DEF ToBeIgnored, Tracked, Untracked, Decides, Ignores, Decider

\* Two rules do not decide for one file.
LEMMA OneDecides ==
  ASSUME NEW m \in RuleSets, NEW f \in File, NEW p, NEW q, Decider(m, p, f), Decider(m, q, f)
  PROVE  p = q
<1>1. p \in Seq(Name) /\ q \in Seq(Name) /\ f \in Seq(Name)
  BY Paths, RuleSet DEF Decider
<1>2. Len(p) \in Nat /\ Len(q) \in Nat /\ Covers(p, f) /\ Covers(q, f)
  BY <1>1, CoversShorter DEF Decider
<1>3. CASE Len(p) <= Len(q)
  BY <1>1, <1>2, <1>3, CoversChain DEF Decider
<1>4. CASE Len(q) <= Len(p)
  BY <1>1, <1>2, <1>4, CoversChain DEF Decider
<1> QED
  BY <1>2, <1>3, <1>4

\* The longest rule that covers a file decides.
LEMMA LongestDecides ==
  ASSUME NEW m \in RuleSets, NEW f \in File, NEW p \in Applicable(m, f),
         \A q \in Applicable(m, f) : Len(q) <= Len(p)
  PROVE  Decider(m, p, f)
<1>1. p \in DOMAIN m /\ Covers(p, f)
  BY DEF Applicable
<1>2. ASSUME NEW q \in DOMAIN m, Covers(p, q), Covers(q, f)
      PROVE  q = p
  <2>1. p \in Seq(Name) /\ q \in Seq(Name) /\ f \in Seq(Name)
    BY <1>1, Paths, RuleSet
  <2>2. Len(q) <= Len(p)
    BY <1>2 DEF Applicable
  <2>3. Len(p) \in Nat /\ Len(q) \in Nat /\ Len(p) <= Len(q)
    BY <1>2, <2>1, CoversShorter
  <2>4. Len(p) = Len(q)
    BY <2>2, <2>3
  <2> QED
    BY <1>1, <1>2, <2>1, <2>4, CoversChain
<1> QED
  BY <1>1, <1>2 DEF Decider

\* A file under some rule has one that decides, and the exclusions are not asked.
LEMMA CoveredDecides ==
  ASSUME NEW m \in RuleSets, NEW f \in File, Applicable(m, f) # {}
  PROVE  \E p \in Applicable(m, f) :
           /\ \A q \in Applicable(m, f) : Len(q) <= Len(p)
           /\ Decider(m, p, f)
<1>1. f \in Seq(Name) /\ Applicable(m, f) \in SUBSET Seq(Name)
  BY Paths, RuleSet DEF Applicable
<1>2. \A p \in Applicable(m, f) : Covers(p, f)
  BY DEF Applicable
<1>3. PICK p \in Applicable(m, f) : \A q \in Applicable(m, f) : Len(q) <= Len(p)
  BY <1>1, <1>2, Longest
<1> QED
  BY <1>3, LongestDecides

\* get_ignored_status, which takes the longest rule, says what the innermost
\* directory with a rule says.
LEMMA StatusDecides ==
  ASSUME NEW m \in RuleSets, NEW e, NEW f \in File
  PROVE  /\ IgnoredStatus(m, e, f) \in BOOLEAN
         /\ IgnoredStatus(m, e, f) <=> Ignores(m, e, f)
<1>1. CASE Applicable(m, f) = {}
  <2>1. \A p : ~Decider(m, p, f)
    BY <1>1 DEF Decider, Applicable
  <2>2. IgnoredStatus(m, e, f) \in BOOLEAN /\ (IgnoredStatus(m, e, f) <=> f \in e)
    BY <1>1 DEF IgnoredStatus
  <2>3. Ignores(m, e, f) <=> f \in e
    BY <2>1 DEF Ignores
  <2> QED
    BY <2>2, <2>3
<1>2. CASE Applicable(m, f) # {}
  <2> DEFINE first == CHOOSE p \in Applicable(m, f) :
                        \A q \in Applicable(m, f) : Len(q) <= Len(p)
  <2>1. /\ first \in Applicable(m, f)
        /\ \A q \in Applicable(m, f) : Len(q) <= Len(first)
    BY <1>2, CoveredDecides
  <2>2. IgnoredStatus(m, e, f) = (m[first] = "exclude")
    BY <1>2 DEF IgnoredStatus
  <2> HIDE DEF first
  <2>3. Decider(m, first, f)
    BY <2>1, LongestDecides
  <2>4. first \in RulePath /\ m[first] \in {"include", "exclude"}
    BY <2>3, RuleSet DEF Decider, Action
  <2>5. \A p : Decider(m, p, f) => p = first
    BY <2>3, OneDecides
  <2>6. Ignores(m, e, f) <=> m[first] = "exclude"
    BY <2>3, <2>4, <2>5 DEF Ignores
  <2> QED
    BY <2>2, <2>6
<1> QED
  BY <1>1, <1>2

-----------------------------------------------------------------------------
(* Types, and what a session knows of the rules                             *)

Flagged == UNION {[D -> BOOLEAN] : D \in SUBSET File}

RequestRun ==
  [pc : {"idle", "read"}, tracks : SUBSET RulePath, untracks : SUBSET RulePath,
   existing : RuleSets, stale : BOOLEAN]

SettingsRun ==
  [pc : {"idle", "saved", "read"}, rules : RuleSets, excluded : Exclusions,
   rows : SUBSET File, stale : BOOLEAN]

ScanRun ==
  [pc : {"idle", "walking", "found", "loaded"}, rules : RuleSets, excluded : Exclusions,
   todo : SUBSET File, found : Flagged, loaded : Flagged, stale : BOOLEAN]

PolicyOK == rules \in RuleSets /\ excluded \in Exclusions /\ edits \in 0 .. MaxEdits

RowsOK ==
  /\ present \subseteq File /\ rows \subseteq File /\ unsettled \subseteq File
  /\ ignored \in [File -> BOOLEAN] /\ byPolicy \in [File -> BOOLEAN]
  /\ \A f \in File \ rows : ~ignored[f] /\ ~byPolicy[f]

\* A request holds only rules that it names, and knows them as they are unless it
\* is outdated.
RequestsOK ==
  /\ request \in [Request -> RequestRun]
  /\ \A r \in Request :
       DOMAIN request[r].existing \subseteq request[r].tracks \union request[r].untracks
  /\ \A r \in Request : request[r].pc = "read" /\ ~request[r].stale =>
       request[r].existing =
         Restrict(rules, DOMAIN rules \intersect (request[r].tracks \union request[r].untracks))

\* Nor does a recomputation that is not outdated decide by other rules.
SettingsOK ==
  /\ settings \in SettingsRun
  /\ settings.rows \subseteq rows
  /\ settings.pc = "read" /\ ~settings.stale =>
       settings.rules = rules /\ settings.excluded = excluded

\* A scan carries what the rules it began with say of the file it has found.
ScanOK ==
  /\ scan \in ScanRun
  /\ scan.pc # "idle" /\ ~scan.stale => scan.rules = rules /\ scan.excluded = excluded
  /\ \A f \in DOMAIN scan.found : scan.found[f] <=> Ignores(scan.rules, scan.excluded, f)
  /\ DOMAIN scan.loaded \subseteq DOMAIN scan.found \intersect rows
  /\ scan.pc # "loaded" => DOMAIN scan.loaded = {}

Types == PolicyOK /\ RowsOK /\ RequestsOK /\ SettingsOK /\ ScanOK

\* Flags of some files.
LEMMA FlaggedDef ==
  /\ \A g \in Flagged : DOMAIN g \in SUBSET File /\ g \in [DOMAIN g -> BOOLEAN]
  /\ \A D \in SUBSET File : \A g \in [D -> BOOLEAN] : g \in Flagged
BY DEF Flagged

\* No rules and no flags.
LEMMA NothingTypes ==
  /\ Nothing \in RuleSets /\ Nothing \in Flagged /\ DOMAIN Nothing = {}
  /\ {} \in Exclusions
<1>1. Nothing \in [{} -> Action] /\ Nothing \in [{} -> BOOLEAN] /\ DOMAIN Nothing = {}
  BY DEF Nothing
<1>2. Nothing \in RuleSets
  BY <1>1 DEF RuleSets
<1>3. Nothing \in Flagged
  BY <1>1, FlaggedDef
<1> QED
  BY <1>1, <1>2, <1>3, TrackingConstants

\* Sessions that have not begun.
LEMMA NewTypes ==
  /\ NewRequest \in RequestRun /\ NewSettings \in SettingsRun /\ NewScan \in ScanRun
  /\ DOMAIN NewRequest.existing = {}
  /\ NewRequest.pc = "idle" /\ NewSettings.pc = "idle" /\ NewScan.pc = "idle"
  /\ NewSettings.rows = {} /\ NewScan.found = Nothing /\ NewScan.loaded = Nothing
BY NothingTypes DEF NewRequest, NewSettings, NewScan, RequestRun, SettingsRun, ScanRun

\* A part of the rules is rules.
LEMMA RestrictTypes ==
  ASSUME NEW m \in RuleSets, NEW D \in SUBSET DOMAIN m
  PROVE  Restrict(m, D) \in RuleSets
<1>1. Restrict(m, D) \in [D -> Action] /\ D \in SUBSET RulePath
  BY RuleSet DEF Restrict
<1> QED
  BY <1>1 DEF RuleSets

\* Nothing is stored at first but the rows of files that are gone.
LEMMA InitTypes == Init => Types
<1> SUFFICES ASSUME Init PROVE Types
  OBVIOUS
<1>1. PolicyOK
  <2>1. edits \in 0 .. MaxEdits
    BY TrackingConstants DEF Init
  <2> QED
    BY <2>1, NothingTypes DEF Init, PolicyOK
<1>2. RowsOK
  BY DEF Init, RowsOK
<1>3. RequestsOK
  BY NewTypes DEF Init, RequestsOK
<1>4. SettingsOK
  BY NewTypes DEF Init, SettingsOK
<1>5. ScanOK
  BY NewTypes, NothingTypes DEF Init, ScanOK
<1> QED
  BY <1>1, <1>2, <1>3, <1>4, <1>5 DEF Types

\* When the rules change, everyone who has read them is outdated.
LEMMA OutdateTypes ==
  ASSUME RequestsOK, ScanOK, NEW others \in SUBSET Request, Outdate(others),
         UNCHANGED rows
  PROVE  RequestsOK' /\ ScanOK'
<1>1. RequestsOK'
  <2>1. request \in [Request -> RequestRun]
    BY DEF RequestsOK
  <2>2. \A r \in Request : [request[r] EXCEPT !.stale = TRUE] \in RequestRun
    BY <2>1 DEF RequestRun
  <2>3. request' \in [Request -> RequestRun]
    BY <2>1, <2>2, NewTypes DEF Outdate
  <2>4. \A r \in Request : request'[r].pc = "read" => request'[r].stale
    BY <2>1, NewTypes DEF Outdate, RequestRun
  <2>5. ASSUME NEW r \in Request
        PROVE  DOMAIN request'[r].existing \subseteq request'[r].tracks \union request'[r].untracks
    <3>1. \/ request'[r] = NewRequest \/ request'[r] = request[r]
          \/ request'[r] = [request[r] EXCEPT !.stale = TRUE]
      BY DEF Outdate
    <3>2. \/ request'[r] = NewRequest
          \/ /\ request'[r].existing = request[r].existing
             /\ request'[r].tracks = request[r].tracks
             /\ request'[r].untracks = request[r].untracks
      BY <2>1, <3>1 DEF RequestRun
    <3> QED
      BY <3>2, NewTypes DEF RequestsOK
  <2> QED
    BY <2>3, <2>4, <2>5 DEF RequestsOK
<1>2. ScanOK'
  <2>1. scan' = [scan EXCEPT !.stale = (scan.pc # "idle")] /\ scan \in ScanRun
    BY DEF Outdate, ScanOK
  <2>2. (scan.pc # "idle") \in BOOLEAN
    OBVIOUS
  <2>3. scan' \in ScanRun
    BY <2>1, <2>2 DEF ScanRun
  <2>4. /\ scan'.pc = scan.pc /\ scan'.rules = scan.rules /\ scan'.excluded = scan.excluded
        /\ scan'.found = scan.found /\ scan'.loaded = scan.loaded
        /\ scan'.stale <=> scan.pc # "idle"
    BY <2>1 DEF ScanRun
  <2> QED
    BY <2>3, <2>4 DEF ScanOK
<1> QED
  BY <1>1, <1>2

\* What a request writes is rules.
LEMMA WriteTypes ==
  ASSUME Types, NEW r \in Request, BatchWrite(r)
  PROVE  /\ rules' \in RuleSets
         /\ DOMAIN rules' = DOMAIN rules \union NewRules(request[r])
         /\ \A p \in DOMAIN rules' :
              rules'[p] = IF p \in NewRules(request[r]) \union Changed(request[r])
                          THEN Requested(request[r], p) ELSE rules[p]
<1> DEFINE q == request[r]
           D == DOMAIN rules \union NewRules(q)
           V(p) == IF p \in NewRules(q) \union Changed(q) THEN Requested(q, p) ELSE rules[p]
<1>1. q \in RequestRun
  BY DEF Types, RequestsOK
<1>2. D \in SUBSET RulePath
  <2>1. NewRules(q) \in SUBSET RulePath
    BY <1>1 DEF NewRules, RequestRun
  <2> QED
    BY <2>1, RuleSet DEF Types, PolicyOK
<1>3. \A p \in D : V(p) \in Action
  BY RuleSet DEF Types, PolicyOK, Requested, Action
<1>4. rules' = [p \in D |-> V(p)]
  BY DEF BatchWrite
<1> HIDE DEF D, V
<1>5. rules' \in [D -> Action]
  BY <1>3, <1>4
<1>6. rules' \in RuleSets
  BY <1>2, <1>5 DEF RuleSets
<1> QED
  BY <1>4, <1>6 DEF D, V

\* A request reads the rules it names, or is refused.
LEMMA RequestTypes ==
  ASSUME Types, NEW r \in Request,
         BatchRefused(r) \/ \E b \in Batch : BatchRead(r, b[1], b[2])
  PROVE  Types'
<1>1. /\ UNCHANGED <<present, rules, excluded, rows, ignored, byPolicy, settings, scan, unsettled>>
      /\ edits' \in 0 .. MaxEdits
  <2>1. UNCHANGED <<present, rules, excluded, rows, ignored, byPolicy, settings, scan, unsettled>>
    BY DEF BatchRefused, BatchRead, policy, index
  <2>2. UNCHANGED edits \/ (edits < MaxEdits /\ edits' = edits + 1)
    BY DEF BatchRefused, BatchRead
  <2> QED
    BY <2>1, <2>2, TrackingConstants DEF Types, PolicyOK
<1>2. request \in [Request -> RequestRun] /\ rules \in RuleSets
  BY DEF Types, RequestsOK, PolicyOK
<1>3. CASE BatchRefused(r)
  <2>1. request' = [request EXCEPT ![r] = NewRequest]
    BY <1>3 DEF BatchRefused
  <2>2. RequestsOK'
    BY <1>1, <1>2, <2>1, NewTypes DEF Types, RequestsOK
  <2> QED
    BY <1>1, <2>2 DEF Types, PolicyOK, RowsOK, SettingsOK, ScanOK
<1>4. ASSUME NEW b \in Batch, BatchRead(r, b[1], b[2])
      PROVE  Types'
  <2> DEFINE named == DOMAIN rules \intersect (b[1] \union b[2])
             n == [pc |-> "read", tracks |-> b[1], untracks |-> b[2], stale |-> FALSE,
                   existing |-> Restrict(rules, named)]
  <2>1. b[1] \in SUBSET RulePath /\ b[2] \in SUBSET RulePath
    BY TrackingConstants
  <2>2. Restrict(rules, named) \in RuleSets
    BY <1>2, RestrictTypes
  <2>3. request' = [request EXCEPT ![r] = n]
    BY <1>4 DEF BatchRead
  <2>4. n \in RequestRun
    BY <2>1, <2>2 DEF RequestRun
  <2>5. /\ n.existing = Restrict(rules, DOMAIN rules \intersect (n.tracks \union n.untracks))
        /\ DOMAIN n.existing \subseteq n.tracks \union n.untracks
    BY DEF Restrict
  <2> HIDE DEF n
  <2>6. RequestsOK'
    BY <1>1, <1>2, <2>3, <2>4, <2>5 DEF Types, RequestsOK
  <2> QED
    BY <1>1, <2>6 DEF Types, PolicyOK, RowsOK, SettingsOK, ScanOK
<1> QED
  BY <1>3, <1>4

\* A request writes its rules and the flags under them.
LEMMA BatchTypes ==
  ASSUME Types, NEW r \in Request, BatchWrite(r)
  PROVE  Types'
<1>1. /\ UNCHANGED <<present, excluded, rows, byPolicy, edits>>
      /\ ignored' = Flags(request[r])
      /\ unsettled' \subseteq File
      /\ Outdate(Request \ {r})
      /\ settings' = [settings EXCEPT !.stale = (settings.pc # "idle")]
  BY DEF BatchWrite
<1>2. RequestsOK' /\ ScanOK'
  BY <1>1, OutdateTypes DEF Types
<1>3. SettingsOK'
  <2>1. settings \in SettingsRun /\ (settings.pc # "idle") \in BOOLEAN
    BY DEF Types, SettingsOK
  <2>2. settings' \in SettingsRun
    BY <1>1, <2>1 DEF SettingsRun
  <2>3. /\ settings'.pc = settings.pc /\ settings'.rows = settings.rows
        /\ settings'.stale <=> settings.pc # "idle"
    BY <1>1, <2>1 DEF SettingsRun
  <2> QED
    BY <1>1, <2>2, <2>3 DEF Types, SettingsOK
<1>4. RowsOK'
  <2>1. ignored' \in [File -> BOOLEAN] /\ \A f \in File \ rows : ignored'[f] = ignored[f]
    BY <1>1 DEF Flags, Types, RowsOK
  <2> QED
    BY <1>1, <2>1 DEF Types, RowsOK
<1> QED
  BY <1>1, <1>2, <1>3, <1>4, WriteTypes DEF Types, PolicyOK

\* The exclusions are edited.
LEMMA SettingsTypes ==
  ASSUME Types, NEW e \in Exclusions, SettingsCommit(e)
  PROVE  Types'
<1>1. /\ UNCHANGED <<present, rules, rows, ignored, byPolicy>>
      /\ excluded' = e /\ unsettled' \subseteq File
      /\ Outdate(Request)
      /\ settings' = [NewSettings EXCEPT !.pc = "saved"]
  BY DEF SettingsCommit, index, Types, RowsOK
<1>2. edits' \in 0 .. MaxEdits
  BY TrackingConstants DEF SettingsCommit, Types, PolicyOK
<1>3. RequestsOK' /\ ScanOK'
  BY <1>1, OutdateTypes DEF Types
<1>4. SettingsOK'
  <2>1. settings' \in SettingsRun /\ settings'.pc = "saved" /\ settings'.rows = {}
    BY <1>1, NewTypes DEF SettingsRun
  <2> QED
    BY <2>1 DEF SettingsOK
<1> QED
  BY <1>1, <1>2, <1>3, <1>4 DEF Types, PolicyOK, RowsOK

\* The recomputation reads the rules and the rows.
LEMMA RecomputeReadTypes ==
  ASSUME Types, RecomputeRead
  PROVE  Types'
<1>1. UNCHANGED <<present, rules, excluded, rows, ignored, byPolicy, request, scan, edits,
                  unsettled>>
  BY DEF RecomputeRead, policy, index
<1>2. SettingsOK'
  <2>1. settings' = [pc |-> "read", rules |-> rules, excluded |-> excluded, rows |-> rows,
                     stale |-> FALSE]
    BY DEF RecomputeRead
  <2> QED
    BY <1>1, <2>1 DEF Types, PolicyOK, RowsOK, SettingsOK, SettingsRun
<1> QED
  BY <1>1, <1>2 DEF Types, PolicyOK, RowsOK, RequestsOK, ScanOK

\* ... and writes them.
LEMMA RecomputeWriteTypes ==
  ASSUME Types, RecomputeWrite
  PROVE  Types'
<1>1. UNCHANGED <<present, rules, excluded, rows, request, scan, edits>>
  BY DEF RecomputeWrite, policy
<1>2. SettingsOK'
  <2>1. settings' = NewSettings
    BY DEF RecomputeWrite
  <2> QED
    BY <1>1, <2>1, NewTypes DEF SettingsOK
<1>3. RowsOK'
  <2>1. settings.rows \subseteq rows /\ settings.rules \in RuleSets
    BY DEF Types, SettingsOK, SettingsRun
  <2>2. \A f \in File : IgnoredStatus(settings.rules, settings.excluded, f) \in BOOLEAN
    BY <2>1, StatusDecides
  <2>3. ignored' \in [File -> BOOLEAN] /\ \A f \in File \ rows : ignored'[f] = ignored[f]
    BY <2>1, <2>2 DEF RecomputeWrite, Types, RowsOK
  <2>4. byPolicy' \in [File -> BOOLEAN] /\ \A f \in File \ rows : byPolicy'[f] = byPolicy[f]
    <3> DEFINE V(f) == IF f \in settings.rows THEN f \in settings.excluded ELSE byPolicy[f]
    <3>1. \A f \in File : byPolicy[f] \in BOOLEAN
      BY DEF Types, RowsOK
    <3>2. \A f \in File : V(f) \in BOOLEAN
      <4> SUFFICES ASSUME NEW f \in File PROVE V(f) \in BOOLEAN
        OBVIOUS
      <4>1. (f \in settings.excluded) \in BOOLEAN
        OBVIOUS
      <4>2. V(f) = (f \in settings.excluded) \/ V(f) = byPolicy[f]
        BY Zenon
      <4> HIDE DEF V
      <4> QED
        BY <3>1, <4>1, <4>2
    <3>3. \A f \in File \ rows : V(f) = byPolicy[f]
      BY <2>1
    <3>4. byPolicy' = [f \in File |-> V(f)]
      BY DEF RecomputeWrite
    <3> HIDE DEF V
    <3> QED
      BY <3>2, <3>3, <3>4
  <2>5. unsettled' \subseteq File
    BY <2>1 DEF RecomputeWrite, Settle, Types, RowsOK
  <2> QED
    BY <1>1, <2>3, <2>4, <2>5 DEF Types, RowsOK
<1> QED
  BY <1>1, <1>2, <1>3 DEF Types, PolicyOK, RequestsOK, ScanOK

\* A scan decides what it finds by the rules it has read.
LEMMA ScanTypes ==
  ASSUME Types, ScanStart \/ ScanEnd \/ SyncRead \/ \E f \in File : ScanFile(f)
  PROVE  Types'
<1>1. UNCHANGED <<present, rules, excluded, rows, ignored, byPolicy, request, settings, edits,
                  unsettled>>
  BY DEF ScanStart, ScanEnd, SyncRead, ScanFile, policy, index
<1>2. scan \in ScanRun /\ rules \in RuleSets /\ excluded \in Exclusions /\ present \in SUBSET File
  BY DEF Types, ScanOK, PolicyOK, RowsOK
<1>3. ScanOK'
  <2>1. CASE ScanStart
    <3> DEFINE n == [NewScan EXCEPT !.pc = "walking", !.rules = rules, !.excluded = excluded,
                                    !.todo = present]
    <3>1. n \in ScanRun
      BY <1>2, NewTypes DEF ScanRun
    <3>2. n.rules = rules /\ n.excluded = excluded /\ n.found = Nothing /\ n.loaded = Nothing
      BY DEF NewScan
    <3>3. scan' = n
      BY <2>1 DEF ScanStart
    <3> HIDE DEF n
    <3> QED
      BY <1>1, <3>1, <3>2, <3>3, NothingTypes DEF ScanOK
  <2>2. CASE ScanEnd
    BY <1>1, <2>2, NewTypes, NothingTypes DEF ScanEnd, ScanOK
  <2>3. CASE SyncRead
    <3> DEFINE D == DOMAIN scan.found \intersect rows
               flags == Restrict(ignored, D)
               m == [scan EXCEPT !.pc = "loaded"]
               n == [m EXCEPT !.loaded = flags]
    <3>1. D \in SUBSET File
      BY <1>2, FlaggedDef DEF ScanRun
    <3>2. flags \in [D -> BOOLEAN] /\ DOMAIN flags = D
      BY <3>1 DEF Types, RowsOK, Restrict
    <3>3. flags \in Flagged
      BY <3>1, <3>2, FlaggedDef
    <3>4. scan' = n
      BY <1>2, <2>3 DEF SyncRead, ScanRun
    <3>5. m \in ScanRun
      BY <1>2 DEF ScanRun
    <3>6. /\ n.rules = scan.rules /\ n.excluded = scan.excluded /\ n.found = scan.found
          /\ n.loaded = flags /\ n.stale = scan.stale /\ n.pc = "loaded" /\ scan.pc = "found"
      BY <1>2, <2>3 DEF ScanRun, SyncRead
    <3> HIDE DEF flags, m
    <3>7. n \in ScanRun
      BY <3>3, <3>5 DEF ScanRun
    <3> HIDE DEF n
    <3> QED
      BY <1>1, <3>2, <3>4, <3>6, <3>7 DEF Types, ScanOK
  <2>4. ASSUME NEW f \in File, ScanFile(f)
        PROVE  ScanOK'
    <3> DEFINE status == [g \in {f} |-> IgnoredStatus(scan.rules, scan.excluded, g)]
               todo == scan.todo \ {f}
               l == [scan EXCEPT !.pc = "found"]
               m == [l EXCEPT !.todo = todo]
               n == [m EXCEPT !.found = status]
    <3>1. /\ IgnoredStatus(scan.rules, scan.excluded, f) \in BOOLEAN
          /\ IgnoredStatus(scan.rules, scan.excluded, f) <=> Ignores(scan.rules, scan.excluded, f)
      BY <1>2, StatusDecides DEF ScanRun
    <3>2. status \in [{f} -> BOOLEAN] /\ DOMAIN status = {f}
      BY <3>1
    <3>3. status[f] <=> Ignores(scan.rules, scan.excluded, f)
      BY <3>1
    <3>4. scan' = n
      BY <1>2, <2>4 DEF ScanFile, ScanRun
    <3>5. /\ n.rules = scan.rules /\ n.excluded = scan.excluded /\ n.found = status
          /\ n.loaded = scan.loaded /\ n.stale = scan.stale /\ n.pc = "found"
          /\ scan.pc = "walking"
      BY <1>2, <2>4 DEF ScanRun, ScanFile
    <3> HIDE DEF status
    <3>6. status \in Flagged
      BY <3>2, FlaggedDef
    <3>7. m \in ScanRun
      BY <1>2 DEF ScanRun
    <3> HIDE DEF m
    <3>8. n \in ScanRun
      BY <3>6, <3>7 DEF ScanRun
    <3> HIDE DEF n
    <3> QED
      BY <1>1, <3>2, <3>3, <3>4, <3>5, <3>8 DEF Types, ScanOK
  <2> QED
    BY <2>1, <2>2, <2>3, <2>4
<1> QED
  BY <1>1, <1>3 DEF Types, PolicyOK, RowsOK, RequestsOK, SettingsOK

\* A scan writes the row it has found.
LEMMA SyncTypes ==
  ASSUME Types, SyncCommit
  PROVE  Types'
<1>1. UNCHANGED <<present, rules, excluded, byPolicy, request, settings, edits>>
  BY DEF SyncCommit, policy
<1>2. scan \in ScanRun /\ DOMAIN scan.found \in SUBSET File
      /\ scan.found \in [DOMAIN scan.found -> BOOLEAN]
  BY FlaggedDef DEF Types, ScanOK, ScanRun
<1>3. rows' = rows \union DOMAIN scan.found
  BY DEF SyncCommit
<1>4. ScanOK'
  <2> DEFINE l == [scan EXCEPT !.pc = "walking"]
             m == [l EXCEPT !.found = Nothing]
             n == [m EXCEPT !.loaded = Nothing]
  <2>1. scan' = n
    BY <1>2 DEF SyncCommit, ScanRun
  <2>2. n \in ScanRun
    BY <1>2, NothingTypes DEF ScanRun
  <2>3. /\ n.rules = scan.rules /\ n.excluded = scan.excluded /\ n.found = Nothing
        /\ n.loaded = Nothing /\ n.stale = scan.stale /\ scan.pc = "loaded"
    BY <1>2 DEF ScanRun, SyncCommit
  <2> HIDE DEF n
  <2> QED
    BY <1>1, <2>1, <2>2, <2>3, NothingTypes DEF Types, ScanOK
<1>5. RowsOK'
  <2>1. \A f \in DOMAIN scan.found : SyncFlag(f) \in BOOLEAN
    BY <1>2 DEF SyncFlag, Types, RowsOK
  <2>2. ignored' \in [File -> BOOLEAN]
    BY <2>1 DEF SyncCommit, Types, RowsOK
  <2>3. \A f \in File \ rows' : ignored'[f] = ignored[f]
    BY <1>3 DEF SyncCommit
  <2>4. unsettled' \subseteq File
    BY <1>2 DEF SyncCommit, Settle, Decided, Types, RowsOK
  <2> QED
    BY <1>1, <1>2, <1>3, <2>2, <2>3, <2>4 DEF Types, RowsOK
<1>6. SettingsOK'
  BY <1>1, <1>3 DEF Types, SettingsOK
<1> QED
  BY <1>1, <1>4, <1>5, <1>6 DEF Types, PolicyOK, RequestsOK

\* Every step keeps the types.
LEMMA NextTypes == Types /\ [Next]_vars => Types'
<1> SUFFICES ASSUME Types, [Next]_vars PROVE Types'
  OBVIOUS
<1>1. CASE Edit
  BY <1>1, RequestTypes, SettingsTypes DEF Edit
<1>2. CASE \E r \in Request : BatchStep(r)
  BY <1>2, BatchTypes, RequestTypes DEF BatchStep
<1>3. CASE RecomputeStep
  BY <1>3, RecomputeReadTypes, RecomputeWriteTypes DEF RecomputeStep
<1>4. CASE ScanStart \/ ScanStep
  BY <1>4, ScanTypes, SyncTypes DEF ScanStep
<1>5. CASE UNCHANGED vars
  BY <1>5 DEF vars, Types, PolicyOK, RowsOK, RequestsOK, SettingsOK, ScanOK
<1> QED
  BY <1>1, <1>2, <1>3, <1>4, <1>5 DEF Next

\* The types that the module states.
THEOREM TypeCorrect == Spec => []TypeOK
<1>1. Types => TypeOK
  BY DEF Types, PolicyOK, RowsOK, ScanOK, TypeOK
<1> QED
  BY <1>1, InitTypes, NextTypes, PTL DEF Spec

-----------------------------------------------------------------------------
(* The stored flags follow the rules                                        *)

Follows == \A f \in rows \ unsettled : ignored[f] <=> Ignores(rules, excluded, f)

\* Rules that agree on the paths above a file ignore it alike.
LEMMA SameRules ==
  ASSUME NEW m \in RuleSets, NEW n \in RuleSets, NEW e, NEW f \in File,
         \A p \in RulePath : Covers(p, f) =>
           /\ p \in DOMAIN m <=> p \in DOMAIN n
           /\ p \in DOMAIN m => m[p] = n[p]
  PROVE  Ignores(m, e, f) <=> Ignores(n, e, f)
<1>1. DOMAIN m \subseteq RulePath /\ DOMAIN n \subseteq RulePath
  BY RuleSet
<1>2. ASSUME NEW p \in RulePath
      PROVE  /\ Decider(m, p, f) <=> Decider(n, p, f)
             /\ Decider(m, p, f) => m[p] = n[p]
  BY <1>1 DEF Decider
<1> QED
  BY <1>2 DEF Ignores

\* A file that some rule covers is none of the exclusions' business.
LEMMA CoveredIgnores ==
  ASSUME NEW m \in RuleSets, NEW d, NEW e, NEW f \in File, NEW p \in DOMAIN m, Covers(p, f)
  PROVE  Ignores(m, d, f) <=> Ignores(m, e, f)
<1>1. PICK q : Decider(m, q, f)
  BY CoveredDecides DEF Applicable
<1>2. q \in RulePath /\ m[q] \in {"include", "exclude"}
  BY <1>1, RuleSet DEF Decider, Action
<1> QED
  BY <1>1, <1>2 DEF Ignores

\* A request sets the flag as its rule says where its rule decides.
LEMMA BatchFollows ==
  ASSUME Types, Follows, NEW r \in Request, BatchWrite(r)
  PROVE  Follows'
<1> DEFINE q == request[r]
           named == q.tracks \union q.untracks
<1>1. q \in RequestRun /\ q.pc = "read" /\ named \in SUBSET RulePath
  BY DEF Types, RequestsOK, RequestRun, BatchWrite
<1>2. rules \in RuleSets /\ rules' \in RuleSets /\ UNCHANGED <<rows, excluded>>
  BY WriteTypes DEF Types, PolicyOK, BatchWrite
<1>3. /\ DOMAIN rules' = DOMAIN rules \union NewRules(q)
      /\ \A p \in DOMAIN rules' :
           rules'[p] = IF p \in NewRules(q) \union Changed(q) THEN Requested(q, p) ELSE rules[p]
  BY WriteTypes
<1>4. ~q.stale => q.existing = Restrict(rules, DOMAIN rules \intersect named)
  BY <1>1 DEF Types, RequestsOK
<1> SUFFICES ASSUME NEW f \in File, f \in rows, f \notin unsettled'
             PROVE  ignored'[f] <=> Ignores(rules', excluded', f)
  BY <1>2 DEF Follows, Types, RowsOK
<1>5. f \in Seq(Name) /\ RulePath \subseteq Seq(Name)
  BY Paths
<1>6. ignored'[f] = IF UnderAny(q.untracks, f) THEN TRUE
                    ELSE IF UnderAny(q.tracks, f) THEN FALSE ELSE ignored[f]
  BY DEF BatchWrite, Flags
\* A rule of the request decides, and no other list of it reaches the file.
<1>7. CASE UnderAny(named, f)
  <2>1. Rightly(q, f)
    BY <1>7 DEF BatchWrite
  <2>2. PICK p \in named : Decides(p, f)' /\ \A o \in q.untracks : Matches(o, f) => p \in q.untracks
    BY <2>1 DEF Rightly
  <2>3. ~q.stale
    BY <2>1 DEF Rightly
  <2>4. Decider(rules', p, f)
    BY <2>2 DEF Decides, Decider
  <2>5. p \in DOMAIN rules' /\ p \in RulePath /\ Matches(p, f)
    BY <1>1, <1>5, <2>4, CoversMatches DEF Decider
  <2>6. rules'[p] = Requested(q, p)
    <3>1. CASE p \in NewRules(q) \union Changed(q)
      BY <1>3, <2>5, <3>1
    <3>2. CASE p \notin NewRules(q) \union Changed(q)
      <4>1. p \in DOMAIN q.existing /\ q.existing[p] = Requested(q, p)
        BY <3>2 DEF NewRules, Changed
      <4>2. q.existing[p] = rules[p]
        BY <1>4, <2>3, <4>1 DEF Restrict
      <4> QED
        BY <1>3, <2>5, <3>2, <4>1, <4>2
    <3> QED
      BY <3>1, <3>2
  <2>7. CASE p \in q.untracks
    <3>1. ignored'[f]
      BY <1>6, <2>5, <2>7 DEF UnderAny
    <3>2. rules'[p] = "exclude"
      BY <2>6, <2>7 DEF Requested
    <3> QED
      BY <2>4, <2>5, <3>1, <3>2 DEF Ignores
  <2>8. CASE p \notin q.untracks
    <3>1. ~UnderAny(q.untracks, f) /\ UnderAny(q.tracks, f)
      BY <2>2, <2>5, <2>8 DEF UnderAny
    <3>2. ~ignored'[f]
      BY <1>6, <3>1
    <3>3. rules'[p] = "include"
      BY <2>6, <2>8 DEF Requested
    <3>4. \A o : Decider(rules', o, f) => o = p
      BY <1>2, <2>4, OneDecides
    <3> QED
      BY <2>4, <2>5, <3>2, <3>3, <3>4 DEF Ignores
  <2> QED
    BY <2>7, <2>8
\* Nothing that covers the file has changed.
<1>8. CASE ~UnderAny(named, f)
  <2>1. f \notin unsettled /\ ignored'[f] = ignored[f]
    <3>1. ~UnderAny(q.untracks, f) /\ ~UnderAny(q.tracks, f)
      BY <1>8 DEF UnderAny
    <3> QED
      BY <1>6, <1>8, <3>1 DEF BatchWrite
  <2>2. \A p \in named : ~Covers(p, f)
    BY <1>1, <1>5, <1>8, CoversMatches DEF UnderAny
  <2>3. NewRules(q) \subseteq named
    BY DEF NewRules
  <2>4. Changed(q) \subseteq named
    BY DEF Changed, Types, RequestsOK
  <2>5. \A p \in RulePath : Covers(p, f) =>
          /\ p \in DOMAIN rules <=> p \in DOMAIN rules'
          /\ p \in DOMAIN rules => rules[p] = rules'[p]
    BY <1>3, <2>2, <2>3, <2>4
  <2>6. Ignores(rules, excluded, f) <=> Ignores(rules', excluded, f)
    BY <1>2, <2>5, SameRules
  <2> QED
    BY <1>2, <2>1, <2>6 DEF Follows
<1> QED
  BY <1>7, <1>8

\* New exclusions say nothing new of a file under a rule.
LEMMA SettingsFollow ==
  ASSUME Types, Follows, NEW e \in Exclusions, SettingsCommit(e)
  PROVE  Follows'
<1>1. /\ UNCHANGED <<rules, rows, ignored>> /\ rules \in RuleSets
      /\ unsettled' = unsettled \union {f \in File : \A p \in DOMAIN rules : ~Covers(p, f)}
  BY DEF SettingsCommit, index, Types, PolicyOK
<1> SUFFICES ASSUME NEW f \in File, f \in rows, f \notin unsettled'
             PROVE  ignored'[f] <=> Ignores(rules', excluded', f)
  BY <1>1 DEF Follows, Types, RowsOK
<1>2. f \notin unsettled /\ \E p \in DOMAIN rules : Covers(p, f)
  BY <1>1
<1>3. Ignores(rules, excluded, f) <=> Ignores(rules, excluded', f)
  BY <1>1, <1>2, CoveredIgnores
<1> QED
  BY <1>1, <1>2, <1>3 DEF Follows

\* The recomputation writes what the rules say, and is outdated where it does not.
LEMMA RecomputeFollows ==
  ASSUME Types, Follows, RecomputeWrite
  PROVE  Follows'
<1>1. UNCHANGED <<rules, excluded, rows>> /\ settings \in SettingsRun /\ settings.pc = "read"
  BY DEF RecomputeWrite, policy, Types, SettingsOK
<1> SUFFICES ASSUME NEW f \in File, f \in rows, f \notin unsettled'
             PROVE  ignored'[f] <=> Ignores(rules', excluded', f)
  BY <1>1 DEF Follows, Types, RowsOK
<1>2. unsettled' = IF settings.stale THEN unsettled \union settings.rows
                   ELSE unsettled \ settings.rows
  BY DEF RecomputeWrite, Settle
<1>3. ignored'[f] = IF f \in settings.rows
                    THEN IgnoredStatus(settings.rules, settings.excluded, f) ELSE ignored[f]
  BY DEF RecomputeWrite
<1>4. CASE f \in settings.rows
  <2>1. settings.rules = rules /\ settings.excluded = excluded
    BY <1>1, <1>2, <1>4 DEF Types, SettingsOK
  <2>2. IgnoredStatus(rules, excluded, f) <=> Ignores(rules, excluded, f)
    BY StatusDecides DEF Types, PolicyOK
  <2> QED
    BY <1>1, <1>3, <1>4, <2>1, <2>2
<1>5. CASE f \notin settings.rows
  BY <1>1, <1>2, <1>3, <1>5 DEF Follows
<1> QED
  BY <1>4, <1>5

\* So does a scan, where it leaves the file as it found it; where it does not, the
\* row was there and somebody else has written it since.
LEMMA SyncFollows ==
  ASSUME Types, Follows, SyncCommit
  PROVE  Follows'
<1>1. UNCHANGED <<rules, excluded>> /\ scan.pc = "loaded" /\ rows' = rows \union DOMAIN scan.found
  BY DEF SyncCommit, policy
<1> SUFFICES ASSUME NEW f \in File, f \in rows', f \notin unsettled'
             PROVE  ignored'[f] <=> Ignores(rules', excluded', f)
  <2>1. rows' \subseteq File
    BY SyncTypes DEF Types, RowsOK
  <2> QED
    BY <2>1 DEF Follows
<1>2. unsettled' = IF scan.stale THEN unsettled \union Decided ELSE unsettled \ Decided
  BY DEF SyncCommit, Settle
<1>3. ignored'[f] = IF f \in DOMAIN scan.found THEN SyncFlag(f) ELSE ignored[f]
  BY DEF SyncCommit
<1>4. CASE f \in Decided
  <2>1. f \in DOMAIN scan.found /\ SyncFlag(f) = scan.found[f]
    BY <1>4 DEF Decided
  <2>2. scan.rules = rules /\ scan.excluded = excluded
    BY <1>1, <1>2, <1>4 DEF Types, ScanOK
  <2>3. scan.found[f] <=> Ignores(rules, excluded, f)
    BY <2>1, <2>2 DEF Types, ScanOK
  <2> QED
    BY <1>1, <1>3, <2>1, <2>3
<1>5. CASE f \notin Decided
  <2>1. f \notin unsettled
    BY <1>2, <1>5
  <2>2. f \in rows /\ ignored'[f] = ignored[f]
    <3>1. CASE f \in DOMAIN scan.found
      <4>1. SyncFlag(f) # scan.found[f]
        BY <1>5, <3>1 DEF Decided
      <4>2. f \in DOMAIN scan.loaded /\ SyncFlag(f) = ignored[f]
        BY <4>1 DEF SyncFlag
      <4> QED
        BY <1>3, <3>1, <4>2 DEF Types, ScanOK
    <3>2. CASE f \notin DOMAIN scan.found
      BY <1>1, <1>3, <3>2
    <3> QED
      BY <3>1, <3>2
  <2> QED
    BY <1>1, <2>1, <2>2 DEF Follows
<1> QED
  BY <1>4, <1>5

\* Every step keeps the flags in line.
LEMMA FollowsKept == Types /\ Follows /\ [Next]_vars => Follows'
<1> SUFFICES ASSUME Types, Follows, [Next]_vars PROVE Follows'
  OBVIOUS
<1>1. ASSUME UNCHANGED <<rules, excluded, rows, ignored, unsettled>> PROVE Follows'
  BY <1>1 DEF Follows
<1>2. CASE Edit
  <2>1. ASSUME NEW r \in Request, NEW b \in Batch, BatchRead(r, b[1], b[2]) PROVE Follows'
    BY <1>1, <2>1 DEF BatchRead, policy, index
  <2> QED
    BY <1>2, <2>1, SettingsFollow DEF Edit
<1>3. ASSUME NEW r \in Request, BatchStep(r) PROVE Follows'
  <2>1. CASE BatchRefused(r)
    BY <1>1, <2>1 DEF BatchRefused, policy, index
  <2> QED
    BY <1>3, <2>1, BatchFollows DEF BatchStep
<1>4. CASE RecomputeStep
  <2>1. CASE RecomputeRead
    BY <1>1, <2>1 DEF RecomputeRead, policy, index
  <2> QED
    BY <1>4, <2>1, RecomputeFollows DEF RecomputeStep
<1>5. CASE ScanStart \/ ScanStep
  <2>1. CASE ScanStart \/ SyncRead \/ ScanEnd \/ \E f \in File : ScanFile(f)
    BY <1>1, <2>1 DEF ScanStart, SyncRead, ScanEnd, ScanFile, policy, index
  <2> QED
    BY <1>5, <2>1, SyncFollows DEF ScanStep
<1>6. CASE UNCHANGED vars
  BY <1>1, <1>6 DEF vars
<1> QED
  BY <1>2, <1>3, <1>4, <1>5, <1>6 DEF Next

\* The stored flag is what the innermost rule or the exclusions say, whichever of
\* the three writers came last and however their sessions overlap.
THEOREM FlagsFollowRulesHolds == Spec => []FlagsFollowRules
<1>1. Init => Follows
  <2> SUFFICES ASSUME Init, NEW f \in File PROVE ignored[f] <=> Ignores(rules, excluded, f)
    BY DEF Follows, Init
  <2>1. ~ignored[f] /\ rules = Nothing /\ excluded = {}
    BY DEF Init
  <2>2. ~Ignores(Nothing, {}, f)
    BY NothingTypes DEF Ignores, Decider
  <2> QED
    BY <2>1, <2>2
<1>2. Types /\ Follows => FlagsFollowRules
  <2> SUFFICES ASSUME Types, Follows, NEW f \in rows \ unsettled
               PROVE  ignored[f] = ToBeIgnored(f)
    BY DEF FlagsFollowRules
  <2>1. ignored[f] \in BOOLEAN
    BY DEF Types, RowsOK
  <2>2. ignored[f] <=> ToBeIgnored(f)
    BY Now DEF Follows
  <2>3. ToBeIgnored(f) \in BOOLEAN
    BY DEF ToBeIgnored
  <2> QED
    BY <2>1, <2>2, <2>3
<1> QED
  BY <1>1, <1>2, InitTypes, NextTypes, FollowsKept, PTL DEF Spec
=============================================================================
