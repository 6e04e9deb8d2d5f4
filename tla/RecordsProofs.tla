---------------------------- MODULE RecordsProofs ----------------------------
(***************************************************************************)
(* What is told of an observation, a session and the evidence of a run is  *)
(* true of the files that record it, for any number of clients, runs,      *)
(* bundles and events.                                                     *)
(***************************************************************************)
EXTENDS Sessions, ObserveQueries, Adapters, Monitor, FiniteSetTheorems, WellFoundedInduction, TLAPS

-----------------------------------------------------------------------------
(* Observations                                                            *)

\* Slots can be counted.
OqAssumption == IsFiniteSet(Starts) /\ MaxSlots \in Nat

Taking == {s \in Starts : oq_pc[s] \in {"queued", "open", "hung"}}
Target == [id : Ids, bundle : Bundles]

OqTypes ==
    /\ oq_registry \in [Ids -> {"none", "running", "completed", "failed"}]
    /\ oq_mutex \in Starts \cup {None}
    /\ oq_pc \in [Starts -> {"idle", "queued", "open", "hung", "done", "refused", "lost"}]
    /\ oq_run = [s \in Starts |-> oq_run[s]]
    /\ \A s \in Starts : oq_pc[s] # "idle" => oq_run[s] \in Target
    /\ oq_ticks \in [Starts -> Nat]
    /\ oq_running \in 0..MaxSlots /\ oq_running = Cardinality(Taking)
    /\ oq_bundle \in [Bundles -> Seq(Line)]
    /\ oq_cli \in Bundles \cup {None} /\ oq_next \in Nat
    /\ oq_asks \in [Askers -> {"idle", "verified", "answered"}]
    /\ oq_query = [a \in Askers |-> oq_query[a]]
    /\ oq_seen \in [Askers -> Seq(Line)]
    /\ oq_answer = [a \in Askers |-> oq_answer[a]]

Begins(s, t) == Len(s) <= Len(t) /\ \A k \in 1..Len(s) : t[k] = s[k]

\* What a client has read is the beginning of what the bundle holds by now.
SeenBegins ==
    \A a \in Askers : oq_asks[a] = "verified" =>
        oq_query[a].bundle \in Bundles /\ Begins(oq_seen[a], oq_bundle[oq_query[a].bundle])

OqInv == OqTypes /\ SeenBegins /\ CompletedHasBundle /\ VerdictIsOfVerified

LEMMA AnsweredTypes ==
    ASSUME oq_asks \in [Askers -> {"idle", "verified", "answered"}],
           oq_query = [a \in Askers |-> oq_query[a]], oq_answer = [a \in Askers |-> oq_answer[a]],
           NEW c, NEW what, NEW i, NEW b, NEW answer, Answered(c, what, i, b, answer)
    PROVE  /\ oq_asks' \in [Askers -> {"idle", "verified", "answered"}]
           /\ oq_query' = [a \in Askers |-> oq_query'[a]]
           /\ oq_answer' = [a \in Askers |-> oq_answer'[a]]
  BY DEF Answered

LEMMA Lengthened ==
    ASSUME NEW lines \in Seq(Line), NEW line \in Line
    PROVE  Append(lines, line) \in Seq(Line) /\ Begins(lines, Append(lines, line))
  BY DEF Begins

LEMMA Appends ==
    ASSUME NEW lines \in Seq(Line), NEW kind \in {"start", "suspended", "fine", "bad", "end"},
           NEW n \in Nat
    PROVE  /\ Appended(lines, kind, n) \in Seq(Line) /\ Begins(lines, Appended(lines, kind, n))
           /\ kind = "end" => Watermark(Appended(lines, kind, n)) \/ ~ Verified(Appended(lines, kind, n))
  <1> DEFINE line == [kind |-> kind, seq |-> n]
  <1>1. CASE lines # <<>> /\ Last(lines) = TornLine
    <2>1. Appended(lines, kind, n) = lines /\ Begins(lines, lines)
      BY <1>1 DEF Appended, Begins
    <2>2. Len(lines) \in DOMAIN lines /\ lines[Len(lines)] = TornLine
      BY <1>1 DEF Last
    <2>3. ~ Verified(lines)
      BY <2>2 DEF Verified
    <2>. QED
      BY <2>1, <2>3
  <1>2. CASE ~ (lines # <<>> /\ Last(lines) = TornLine)
    <2>1. Appended(lines, kind, n) = Append(lines, line) /\ line \in Line
      BY <1>2 DEF Appended, Line
    <2>2. /\ Len(lines) + 1 \in DOMAIN Append(lines, line)
          /\ Append(lines, line)[Len(lines) + 1] = line
      OBVIOUS
    <2>3. kind = "end" => Watermark(Append(lines, line))
      BY <2>2 DEF Watermark
    <2>. QED
      BY <2>1, <2>3, Lengthened
  <1>. QED
    BY <1>1, <1>2

LEMMA Cuts ==
    ASSUME NEW lines \in Seq(Line), NEW cut \in Cut(lines)
    PROVE  cut \in Seq(Line) /\ Begins(lines, cut)
  <1>1. Begins(lines, lines)
    BY DEF Begins
  <1>2. TornLine \in Line
    BY DEF TornLine, Line
  <1>. QED
    BY <1>1, <1>2, Lengthened DEF Cut

\* What a bundle shows for good: its end, or that it is torn or out of order.
LEMMA BeginsShows ==
    ASSUME NEW s \in Seq(Line), NEW t \in Seq(Line), Begins(s, t), Watermark(s) \/ ~ Verified(s)
    PROVE  Watermark(t) \/ ~ Verified(t)
  <1>1. \A k \in DOMAIN s : k \in DOMAIN t /\ t[k] = s[k]
    BY DEF Begins
  <1>2. CASE Watermark(s)
    BY <1>1, <1>2 DEF Watermark
  <1>3. CASE ~ Verified(s)
    <2>1. PICK k \in DOMAIN s : s[k] = TornLine \/ s[k].seq # k - 1
      BY <1>3 DEF Verified
    <2>. QED
      BY <1>1, <2>1 DEF Verified
  <1>. QED
    BY <1>2, <1>3

LEMMA BeginsFurther ==
    ASSUME NEW r \in Seq(Line), NEW s \in Seq(Line), NEW t \in Seq(Line), Begins(r, s), Begins(s, t)
    PROVE  Begins(r, t)
  BY DEF Begins

LEMMA OneGrows ==
    ASSUME NEW F \in [Bundles -> Seq(Line)], NEW b, NEW lines,
           b \in Bundles => lines \in Seq(Line) /\ Begins(F[b], lines)
    PROVE  LET G == [F EXCEPT ![b] = lines] IN
           G \in [Bundles -> Seq(Line)] /\ \A c \in Bundles : Begins(F[c], G[c])
  <1> DEFINE G == [F EXCEPT ![b] = lines]
  <1>1. \A c \in Bundles : Begins(F[c], F[c])
    BY DEF Begins
  <1>2. \A c \in Bundles : G[c] = IF c = b THEN lines ELSE F[c]
    OBVIOUS
  <1>3. G = [c \in Bundles |-> G[c]]
    OBVIOUS
  <1> HIDE DEF G
  <1>4. \A c \in Bundles : G[c] \in Seq(Line) /\ Begins(F[c], G[c])
    BY <1>1, <1>2
  <1>5. G \in [Bundles -> Seq(Line)]
    BY <1>3, <1>4
  <1>. QED
    BY <1>4, <1>5 DEF G

Asking == \E a \in Askers : \/ \E i \in Ids : Status(a, i)
                            \/ \E w \in {"verify", "evaluate"}, b \in Bundles : Verify(a, w, b)
                            \/ VerifyAnswer(a) \/ EvaluateAnswer(a)

\* Bundles are only added to.
LEMMA BundlesGrow ==
    ASSUME OqInv, OqNext
    PROVE  /\ oq_bundle' \in [Bundles -> Seq(Line)]
           /\ \A b \in Bundles : Begins(oq_bundle[b], oq_bundle'[b])
  <1>1. CASE UNCHANGED oq_bundle
    BY <1>1 DEF OqInv, OqTypes, Begins
  <1>2. ASSUME NEW b, NEW kind \in {"start", "suspended", "fine", "bad", "end"}, NEW n \in Nat,
               oq_bundle' = [oq_bundle EXCEPT ![b] = Appended(@, kind, n)]
        PROVE  /\ oq_bundle' \in [Bundles -> Seq(Line)]
               /\ \A c \in Bundles : Begins(oq_bundle[c], oq_bundle'[c])
    <2> DEFINE lines == Appended(oq_bundle[b], kind, n)
    <2>1. b \in Bundles => oq_bundle[b] \in Seq(Line)
      BY DEF OqInv, OqTypes
    <2>2. b \in Bundles => lines \in Seq(Line) /\ Begins(oq_bundle[b], lines)
      BY <2>1, Appends
    <2>3. oq_bundle' = [oq_bundle EXCEPT ![b] = lines] /\ oq_bundle \in [Bundles -> Seq(Line)]
      BY <1>2 DEF OqInv, OqTypes
    <2> HIDE DEF lines
    <2>. QED
      BY <2>2, <2>3, OneGrows
  <1>3. ASSUME NEW s \in Starts, Open(s) \/ Suspended(s) \/ Finalize(s), ~ UNCHANGED oq_bundle
        PROVE  /\ oq_bundle' \in [Bundles -> Seq(Line)]
               /\ \A c \in Bundles : Begins(oq_bundle[c], oq_bundle'[c])
    <2> DEFINE b == oq_run[s].bundle
    <2>1. oq_ticks[s] + 1 \in Nat /\ 0 \in Nat
      BY DEF OqInv, OqTypes
    <2>2. CASE Open(s)
      <3>1. oq_bundle' = [oq_bundle EXCEPT ![b] = Appended(@, "start", 0)]
        BY <1>3, <2>2 DEF Open
      <3>. QED
        BY <1>2, <2>1, <3>1
    <2>3. CASE Suspended(s)
      <3>1. oq_bundle' = [oq_bundle EXCEPT ![b] = Appended(@, "suspended", oq_ticks[s] + 1)]
        BY <2>3 DEF Suspended
      <3>. QED
        BY <1>2, <2>1, <3>1
    <2>4. CASE Finalize(s)
      <3>1. oq_bundle' = [oq_bundle EXCEPT ![b] = Appended(@, "end", oq_ticks[s] + 1)]
        BY <1>3, <2>4 DEF Finalize
      <3>. QED
        BY <1>2, <2>1, <3>1
    <2>. QED
      BY <1>3, <2>2, <2>3, <2>4
  <1>4. ASSUME CliWrite \/ \E b \in Bundles : CliOpen(b)
        PROVE  /\ oq_bundle' \in [Bundles -> Seq(Line)]
               /\ \A c \in Bundles : Begins(oq_bundle[c], oq_bundle'[c])
    <2>1. oq_next \in Nat /\ 0 \in Nat
      BY DEF OqInv, OqTypes
    <2>2. CASE CliWrite
      <3>1. PICK kind \in {"fine", "bad", "end"} :
                oq_bundle' = [oq_bundle EXCEPT ![oq_cli] = Appended(@, kind, oq_next)]
        BY <2>2 DEF CliWrite
      <3>. QED
        BY <1>2, <2>1, <3>1
    <2>3. ASSUME NEW b \in Bundles, CliOpen(b)
          PROVE  oq_bundle' = [oq_bundle EXCEPT ![b] = Appended(@, "start", 0)]
      BY <2>3 DEF CliOpen
    <2>. QED
      BY <1>2, <1>4, <2>1, <2>2, <2>3
  <1>5. CASE Die
    <2>1. CASE oq_mutex = None
      BY <1>1, <1>5, <2>1 DEF Die
    <2>2. CASE oq_mutex # None
      <3> DEFINE b == oq_run[oq_mutex].bundle
      <3>1. PICK lines \in Cut(oq_bundle[b]) : oq_bundle' = [oq_bundle EXCEPT ![b] = lines]
        BY <1>5, <2>2 DEF Die
      <3>2. b \in Bundles => oq_bundle[b] \in Seq(Line)
        BY DEF OqInv, OqTypes
      <3>3. b \in Bundles => lines \in Seq(Line) /\ Begins(oq_bundle[b], lines)
        BY <3>1, <3>2, Cuts
      <3>4. oq_bundle \in [Bundles -> Seq(Line)]
        BY DEF OqInv, OqTypes
      <3> HIDE DEF b
      <3>. QED
        BY <3>1, <3>3, <3>4, OneGrows
    <2>. QED
      BY <2>1, <2>2
  <1>6. CASE Restart \/ Asking \/ \E s \in Starts : \/ \E i \in Ids, b \in Bundles : ObserveStart(s, i, b)
                                                   \/ Sampled(s)
    BY <1>1, <1>6 DEF Restart, Asking, ObserveStart, Sampled, Status, Verify, VerifyAnswer, EvaluateAnswer,
                      daemonVars
  <1>. QED
    BY <1>1, <1>2, <1>3, <1>4, <1>5, <1>6 DEF OqNext, Asking

LEMMA OqInvInit == OqAssumption /\ OqInit => OqInv
  <1> SUFFICES ASSUME OqAssumption, OqInit
               PROVE  OqInv
    OBVIOUS
  <1>1. Taking = {} /\ Cardinality({}) = 0
    BY FS_EmptySet DEF OqInit, Taking
  <1>2. <<>> \in Seq(Line)
    OBVIOUS
  <1>3. OqTypes
    BY <1>1, <1>2 DEF OqAssumption, OqInit, OqTypes
  <1>. QED
    BY <1>3 DEF OqInit, OqInv, SeenBegins, CompletedHasBundle, VerdictIsOfVerified

\* A request moves from one of the places in A to another in B.
LEMMA OneTakes ==
    ASSUME OqAssumption, OqTypes, NEW s \in Starts, NEW to, oq_pc' = [oq_pc EXCEPT ![s] = to]
    PROVE  /\ oq_pc[s] = "idle" /\ to = "queued" => Cardinality(Taking') = Cardinality(Taking) + 1
           /\ oq_pc[s] \in {"queued", "open", "hung"} /\ to = "done"
                => Cardinality(Taking') = Cardinality(Taking) - 1
           /\ oq_pc[s] \in {"queued", "open", "hung"} /\ to \in {"queued", "open", "hung"}
                => Taking' = Taking
           /\ oq_pc[s] = "idle" /\ to = "refused" => Taking' = Taking
           /\ Cardinality(Taking) \in Nat
  <1>1. IsFiniteSet(Taking)
    BY FS_Subset DEF OqAssumption, Taking
  <1>2. \A t \in Starts : oq_pc'[t] = IF t = s THEN to ELSE oq_pc[t]
    BY DEF OqTypes
  <1>3. CASE oq_pc[s] = "idle" /\ to = "queued"
    <2>1. Taking' = Taking \cup {s} /\ s \notin Taking
      BY <1>2, <1>3 DEF Taking
    <2>. QED
      BY <1>1, <1>3, <2>1, FS_AddElement, FS_CardinalityType
  <1>4. CASE oq_pc[s] \in {"queued", "open", "hung"} /\ to = "done"
    <2>1. Taking' = Taking \ {s} /\ s \in Taking
      BY <1>2, <1>4 DEF Taking
    <2>. QED
      BY <1>1, <1>4, <2>1, FS_RemoveElement, FS_CardinalityType
  <1>5. CASE \/ oq_pc[s] \in {"queued", "open", "hung"} /\ to \in {"queued", "open", "hung"}
             \/ oq_pc[s] = "idle" /\ to = "refused"
    <2>1. Taking' = Taking
      BY <1>2, <1>5 DEF Taking
    <2>. QED
      BY <1>1, <1>5, <2>1, FS_CardinalityType
  <1>. QED
    BY <1>1, <1>3, <1>4, <1>5, FS_CardinalityType

LEMMA OqTypesStep == OqAssumption /\ OqInv /\ OqNext => OqTypes'
  <1> SUFFICES ASSUME OqAssumption, OqInv, OqNext
               PROVE  OqTypes'
    OBVIOUS
  <1>1. OqTypes /\ MaxSlots \in Nat
    BY DEF OqInv, OqAssumption
  <1>2. oq_bundle' \in [Bundles -> Seq(Line)]
    BY BundlesGrow
  <1>3. ASSUME NEW s \in Starts, NEW i \in Ids, NEW b \in Bundles, ObserveStart(s, i, b)
        PROVE  OqTypes'
    <2>1. CASE oq_running = MaxSlots
      <3>1. Taking' = Taking
        BY <1>1, <1>3, <2>1, OneTakes DEF ObserveStart
      <3>2. oq_running' = Cardinality(Taking')
        BY <1>1, <1>3, <2>1, <3>1 DEF ObserveStart, OqTypes, registryVars
      <3>. QED
        BY <1>1, <1>2, <1>3, <2>1, <3>2
           DEF ObserveStart, OqTypes, registryVars, cliVars, askVars, Target
    <2>2. CASE oq_running # MaxSlots
      <3>1. Cardinality(Taking') = Cardinality(Taking) + 1 /\ Cardinality(Taking) \in Nat
        BY <1>1, <1>3, <2>2, OneTakes DEF ObserveStart
      <3>2. oq_running' = Cardinality(Taking') /\ oq_running' \in 0..MaxSlots
        BY <1>1, <1>3, <2>2, <3>1 DEF ObserveStart, OqTypes
      <3>. QED
        BY <1>1, <1>2, <1>3, <2>2, <3>2
           DEF ObserveStart, OqTypes, registryVars, cliVars, askVars, Target
    <2>. QED
      BY <2>1, <2>2
  <1>4. ASSUME NEW s \in Starts, NEW status \in {"completed", "failed"}, Over(s, status),
               oq_pc[s] \in {"queued", "open"},
               UNCHANGED <<oq_run, oq_ticks, cliVars, askVars>>
        PROVE  OqTypes'
    <2>1. Cardinality(Taking') = Cardinality(Taking) - 1 /\ Cardinality(Taking) \in Nat
      BY <1>1, <1>4, OneTakes DEF Over
    <2>2. IsFiniteSet(Taking')
      BY FS_Subset, <1>4 DEF OqAssumption, Taking
    <2>3. oq_running' = Cardinality(Taking') /\ oq_running' \in 0..MaxSlots
      BY <1>1, <1>4, <2>1, <2>2, FS_CardinalityType DEF Over, OqTypes
    <2>. QED
      BY <1>1, <1>2, <1>4, <2>3 DEF Over, OqTypes, cliVars, askVars
  <1>5. ASSUME NEW s \in Starts, Open(s) \/ Sampled(s), oq_pc' \in {[oq_pc EXCEPT ![s] = "open"], [oq_pc EXCEPT ![s] = "hung"]}
        PROVE  OqTypes'
    <2>1. PICK to \in {"open", "hung"} : oq_pc' = [oq_pc EXCEPT ![s] = to]
      BY <1>5
    <2>2. Taking' = Taking
      BY <1>1, <1>5, <2>1, OneTakes DEF Open, Sampled
    <2>. QED
      BY <1>1, <1>2, <1>5, <2>1, <2>2 DEF Open, Over, Sampled, OqTypes, registryVars, cliVars, askVars
  <1>6. CASE Die
    <2>1. Taking' = {} /\ Cardinality({}) = 0
      BY <1>1, <1>6, FS_EmptySet DEF Die, Taking, OqTypes
    <2>. QED
      BY <1>1, <1>2, <1>6, <2>1 DEF Die, OqTypes, cliVars
  <1>7. CASE \E s \in Starts : Suspended(s)
    <2>1. Taking' = Taking
      BY <1>7 DEF Suspended, Taking
    <2>. QED
      BY <1>1, <1>2, <1>7, <2>1 DEF Suspended, OqTypes, registryVars, cliVars, askVars
  <1>8. CASE Restart \/ CliWrite \/ \E b \in Bundles : CliOpen(b)
    <2>1. Taking' = Taking
      BY <1>8 DEF Restart, CliWrite, CliOpen, runVars, Taking
    <2>. QED
      BY <1>1, <1>2, <1>8, <2>1
         DEF Restart, CliWrite, CliOpen, OqTypes, registryVars, runVars, cliVars, askVars
  <1>9. CASE Asking
    <2>1. Taking' = Taking
      BY <1>9 DEF Asking, Status, Verify, VerifyAnswer, EvaluateAnswer, daemonVars, runVars, Taking
    <2>2. UNCHANGED daemonVars
      BY <1>9 DEF Asking, Status, Verify, VerifyAnswer, EvaluateAnswer
    <2>3. /\ oq_asks' \in [Askers -> {"idle", "verified", "answered"}]
          /\ oq_query' = [a \in Askers |-> oq_query'[a]]
          /\ oq_answer' = [a \in Askers |-> oq_answer'[a]]
      <3>1. \A a \in Askers, i \in Ids : Status(a, i) =>
              /\ oq_asks' \in [Askers -> {"idle", "verified", "answered"}]
              /\ oq_query' = [c \in Askers |-> oq_query'[c]]
              /\ oq_answer' = [c \in Askers |-> oq_answer'[c]]
        BY <1>1, AnsweredTypes DEF Status, OqTypes
      <3>2. \A a \in Askers, w \in {"verify", "evaluate"}, b \in Bundles : Verify(a, w, b) =>
              /\ oq_asks' \in [Askers -> {"idle", "verified", "answered"}]
              /\ oq_query' = [c \in Askers |-> oq_query'[c]]
              /\ oq_answer' = [c \in Askers |-> oq_answer'[c]]
        BY <1>1 DEF Verify, OqTypes
      <3>3. \A a \in Askers : VerifyAnswer(a) \/ EvaluateAnswer(a) =>
              /\ oq_asks' \in [Askers -> {"idle", "verified", "answered"}]
              /\ oq_query' = [c \in Askers |-> oq_query'[c]]
              /\ oq_answer' = [c \in Askers |-> oq_answer'[c]]
        BY <1>1, AnsweredTypes DEF VerifyAnswer, EvaluateAnswer, OqTypes
      <3>. QED
        BY <1>9, <3>1, <3>2, <3>3 DEF Asking
    <2>4. oq_seen' \in [Askers -> Seq(Line)]
      <3>1. \A b \in Bundles : oq_bundle[b] \in Seq(Line)
        BY <1>1 DEF OqTypes
      <3>. QED
        BY <1>1, <1>9, <3>1 DEF Asking, Status, Verify, VerifyAnswer, EvaluateAnswer, OqTypes
    <2>. QED
      BY <1>1, <2>1, <2>2, <2>3, <2>4 DEF daemonVars, OqTypes, registryVars, runVars, cliVars
  <1>10. ASSUME NEW s \in Starts, Open(s) \/ Sampled(s) \/ Finalize(s)
         PROVE  OqTypes'
    <2>1. CASE Sampled(s)
      BY <1>5, <2>1 DEF Sampled
    <2>2. CASE Open(s)
      BY <1>4, <1>5, <2>2 DEF Open
    <2>3. CASE Finalize(s)
      BY <1>4, <2>3 DEF Finalize
    <2>. QED
      BY <1>10, <2>1, <2>2, <2>3
  <1>. QED
    BY <1>3, <1>6, <1>7, <1>8, <1>9, <1>10 DEF OqNext, Asking

LEMMA SeenStep == OqAssumption /\ OqInv /\ OqNext => SeenBegins'
  <1> SUFFICES ASSUME OqAssumption, OqInv, OqNext, NEW a \in Askers, oq_asks'[a] = "verified"
               PROVE  /\ oq_query'[a].bundle \in Bundles
                      /\ Begins(oq_seen'[a], oq_bundle'[oq_query'[a].bundle])
    BY DEF SeenBegins
  <1>1. OqTypes /\ SeenBegins
    BY DEF OqInv
  <1>2. oq_bundle' \in [Bundles -> Seq(Line)] /\ \A b \in Bundles : Begins(oq_bundle[b], oq_bundle'[b])
    BY BundlesGrow
  <1>3. CASE oq_asks[a] = "verified" /\ oq_query'[a] = oq_query[a] /\ oq_seen'[a] = oq_seen[a]
    <2> DEFINE b == oq_query[a].bundle
    <2>1. b \in Bundles /\ Begins(oq_seen[a], oq_bundle[b])
      BY <1>1, <1>3 DEF SeenBegins
    <2>2. /\ oq_seen[a] \in Seq(Line) /\ oq_bundle[b] \in Seq(Line) /\ oq_bundle'[b] \in Seq(Line)
          /\ Begins(oq_bundle[b], oq_bundle'[b])
      BY <1>1, <1>2, <2>1 DEF OqTypes
    <2>3. Begins(oq_seen[a], oq_bundle'[b])
      BY <2>1, <2>2, BeginsFurther
    <2>. QED
      BY <1>3, <2>1, <2>3
  <1>4. ASSUME NEW c \in Askers, NEW w, NEW b \in Bundles, Verify(c, w, b), a = c
        PROVE  /\ oq_query'[a].bundle \in Bundles
               /\ Begins(oq_seen'[a], oq_bundle'[oq_query'[a].bundle])
    <2>1. oq_query'[a].bundle = b /\ oq_seen'[a] = oq_bundle[b]
      BY <1>1, <1>4 DEF Verify, OqTypes
    <2>. QED
      BY <1>2, <2>1
  <1>5. CASE UNCHANGED <<oq_asks, oq_query, oq_seen>>
    BY <1>3, <1>5
  <1>6. CASE Asking
    <2>1. ASSUME NEW c \in Askers, NEW w \in {"verify", "evaluate"}, NEW b \in Bundles, Verify(c, w, b), a # c
          PROVE  oq_asks[a] = "verified" /\ oq_query'[a] = oq_query[a] /\ oq_seen'[a] = oq_seen[a]
      BY <1>1, <2>1 DEF Verify, OqTypes
    <2>2. ASSUME NEW c \in Askers, VerifyAnswer(c) \/ EvaluateAnswer(c) \/ \E i \in Ids : Status(c, i)
          PROVE  oq_asks[a] = "verified" /\ oq_query'[a] = oq_query[a] /\ oq_seen'[a] = oq_seen[a]
      <3>1. PICK what, i, b, answer : Answered(c, what, i, b, answer) /\ UNCHANGED oq_seen
        BY <2>2 DEF VerifyAnswer, EvaluateAnswer, Status
      <3>2. a # c
        BY <1>1, <3>1 DEF Answered, OqTypes
      <3>. QED
        BY <1>1, <3>1, <3>2 DEF Answered, OqTypes
    <2>. QED
      BY <1>3, <1>4, <1>6, <2>1, <2>2 DEF Asking
  <1>7. CASE Die
    BY <1>1, <1>3, <1>7 DEF Die, OqTypes
  <1>8. CASE Restart \/ CliWrite \/ \E b \in Bundles : CliOpen(b)
    BY <1>5, <1>8 DEF Restart, CliWrite, CliOpen, askVars
  <1>9. CASE \E s \in Starts : \/ \E i \in Ids, b \in Bundles : ObserveStart(s, i, b)
                               \/ Open(s) \/ Suspended(s) \/ Sampled(s) \/ Finalize(s)
    BY <1>5, <1>9 DEF ObserveStart, Open, Suspended, Sampled, Finalize, askVars
  <1>. QED
    BY <1>6, <1>7, <1>8, <1>9 DEF OqNext, Asking

\* What status calls completed has its end in the bundle, or the bundle shows that it is torn.
Shows(lines) == Watermark(lines) \/ ~ Verified(lines)

LEMMA CompletedStep == OqAssumption /\ OqInv /\ OqNext => CompletedHasBundle'
  <1> SUFFICES ASSUME OqAssumption, OqInv, OqNext, NEW i \in Ids, oq_registry'[i] = "completed"
               PROVE  \E s \in Starts : /\ oq_run'[s].id = i /\ oq_pc'[s] = "done"
                                        /\ Shows(oq_bundle'[oq_run'[s].bundle])
    BY DEF CompletedHasBundle, Shows
  <1>1. OqTypes
    BY DEF OqInv
  <1>2. oq_bundle' \in [Bundles -> Seq(Line)] /\ \A b \in Bundles : Begins(oq_bundle[b], oq_bundle'[b])
    BY BundlesGrow
  <1>3. CASE oq_registry[i] = "completed" /\ \A s \in Starts : oq_pc[s] = "done" =>
               oq_pc'[s] = "done" /\ oq_run'[s] = oq_run[s]
    <2>1. PICK s \in Starts : /\ oq_run[s].id = i /\ oq_pc[s] = "done"
                              /\ Shows(oq_bundle[oq_run[s].bundle])
      BY <1>3 DEF OqInv, CompletedHasBundle, Shows
    <2> DEFINE b == oq_run[s].bundle
    <2>2. b \in Bundles
      BY <1>1, <2>1 DEF OqTypes, Target
    <2>3. /\ oq_bundle[b] \in Seq(Line) /\ oq_bundle'[b] \in Seq(Line)
          /\ Begins(oq_bundle[b], oq_bundle'[b]) /\ Shows(oq_bundle[b])
      BY <1>1, <1>2, <2>1, <2>2 DEF OqTypes
    <2>4. Shows(oq_bundle'[b])
      BY <2>3, BeginsShows DEF Shows
    <2>. QED
      BY <1>3, <2>1, <2>4
  <1>4. ASSUME NEW s \in Starts, NEW k \in Ids, NEW b \in Bundles, ObserveStart(s, k, b)
        PROVE  oq_registry[i] = "completed" /\ \A t \in Starts : oq_pc[t] = "done" =>
                 oq_pc'[t] = "done" /\ oq_run'[t] = oq_run[t]
    <2>1. \A t \in Starts : oq_pc[t] = "done" => oq_pc'[t] = "done" /\ oq_run'[t] = oq_run[t]
      BY <1>1, <1>4 DEF ObserveStart, OqTypes
    <2>2. oq_registry[i] = "completed"
      BY <1>1, <1>4 DEF ObserveStart, OqTypes, registryVars
    <2>. QED
      BY <2>1, <2>2
  <1>5. ASSUME NEW s \in Starts, NEW status \in {"completed", "failed"}, Over(s, status),
               oq_pc[s] # "done", UNCHANGED oq_run, i # oq_run[s].id \/ status = "failed"
        PROVE  oq_registry[i] = "completed" /\ \A t \in Starts : oq_pc[t] = "done" =>
                 oq_pc'[t] = "done" /\ oq_run'[t] = oq_run[t]
    BY <1>1, <1>5 DEF Over, OqTypes
  <1>6. ASSUME NEW s \in Starts, Open(s)
        PROVE  oq_registry[i] = "completed" /\ \A t \in Starts : oq_pc[t] = "done" =>
                 oq_pc'[t] = "done" /\ oq_run'[t] = oq_run[t]
    <2>1. CASE Over(s, "failed")
      BY <1>5, <1>6, <2>1 DEF Open
    <2>2. CASE ~ Over(s, "failed")
      BY <1>1, <1>6, <2>2 DEF Open, registryVars, OqTypes
    <2>. QED
      BY <2>1, <2>2
  <1>7. ASSUME NEW s \in Starts, Finalize(s)
        PROVE  \E t \in Starts : /\ oq_run'[t].id = i /\ oq_pc'[t] = "done"
                                 /\ Shows(oq_bundle'[oq_run'[t].bundle])
    <2> DEFINE b == oq_run[s].bundle
    <2>1. CASE Over(s, "failed")
      BY <1>3, <1>5, <1>7, <2>1 DEF Finalize
    <2>2. CASE Over(s, "completed") /\ i # oq_run[s].id
      BY <1>3, <1>5, <1>7, <2>2 DEF Finalize
    <2>3. CASE /\ Over(s, "completed") /\ i = oq_run[s].id
               /\ oq_bundle' = [oq_bundle EXCEPT ![b] = Appended(@, "end", oq_ticks[s] + 1)]
      <3>1. b \in Bundles /\ oq_ticks[s] + 1 \in Nat /\ oq_bundle[b] \in Seq(Line)
        <4>1. oq_run[s] \in Target /\ oq_ticks[s] \in Nat
          BY <1>1, <1>7 DEF Finalize, OqTypes
        <4>. QED
          BY <1>1, <4>1 DEF OqTypes, Target
      <3>2. oq_bundle'[b] = Appended(oq_bundle[b], "end", oq_ticks[s] + 1)
        BY <1>1, <2>3, <3>1 DEF OqTypes
      <3>3. Shows(oq_bundle'[b])
        BY <3>1, <3>2, Appends DEF Shows
      <3>4. oq_pc'[s] = "done" /\ oq_run'[s] = oq_run[s]
        BY <1>1, <1>7, <2>3 DEF Finalize, Over, OqTypes
      <3>. QED
        BY <2>3, <3>3, <3>4
    <2>. QED
      BY <1>7, <2>1, <2>2, <2>3 DEF Finalize
  <1>8. ASSUME NEW s \in Starts, Sampled(s)
        PROVE  oq_registry[i] = "completed" /\ \A t \in Starts : oq_pc[t] = "done" =>
                 oq_pc'[t] = "done" /\ oq_run'[t] = oq_run[t]
    BY <1>1, <1>8 DEF Sampled, registryVars, OqTypes
  <1>9. CASE UNCHANGED <<oq_registry, oq_pc, oq_run>>
    BY <1>3, <1>9
  <1>10. ~ Die
    BY DEF Die
  <1>11. Restart \/ CliWrite \/ (\E b \in Bundles : CliOpen(b)) \/ Asking \/ (\E s \in Starts : Suspended(s))
           => UNCHANGED <<oq_registry, oq_pc, oq_run>>
    BY DEF Restart, CliWrite, CliOpen, Suspended, Asking, Status, Verify, VerifyAnswer, EvaluateAnswer,
           daemonVars, registryVars, runVars
  <1>. QED
    BY <1>3, <1>4, <1>6, <1>7, <1>8, <1>9, <1>10, <1>11 DEF OqNext, Asking

LEMMA VerdictStep == OqAssumption /\ OqInv /\ OqNext => VerdictIsOfVerified'
  <1> SUFFICES ASSUME OqAssumption, OqInv, OqNext, NEW a \in Askers,
                      oq_asks'[a] = "answered", oq_query'[a].what = "evaluate",
                      oq_answer'[a].admissible, oq_answer'[a].verdict = "Satisfied"
               PROVE  Verdict(oq_seen'[a]) = "Satisfied"
    BY DEF VerdictIsOfVerified
  <1>1. OqTypes /\ SeenBegins /\ VerdictIsOfVerified
    BY DEF OqInv
  <1>2. CASE /\ oq_asks[a] = "answered" /\ oq_query'[a] = oq_query[a]
             /\ oq_seen'[a] = oq_seen[a] /\ oq_answer'[a] = oq_answer[a]
    BY <1>1, <1>2 DEF VerdictIsOfVerified
  <1>3. ASSUME EvaluateAnswer(a)
        PROVE  Verdict(oq_seen'[a]) = "Satisfied"
    <2> DEFINE b == oq_query[a].bundle
    <2>1. /\ oq_answer'[a] = [admissible |-> Verified(oq_seen[a]), verdict |-> Verdict(Loaded(oq_bundle[b]))]
          /\ oq_seen'[a] = oq_seen[a] /\ oq_asks[a] = "verified"
      BY <1>1, <1>3 DEF EvaluateAnswer, Answered, OqTypes
    <2>2. b \in Bundles /\ Begins(oq_seen[a], oq_bundle[b])
      BY <1>1, <2>1 DEF SeenBegins
    <2>3. oq_seen[a] \in Seq(Line) /\ oq_bundle[b] \in Seq(Line)
      BY <1>1, <2>2 DEF OqTypes
    <2>4. Verdict(Loaded(oq_bundle[b])) = "Satisfied"
      BY <2>1
    <2>5. ASSUME NEW k \in DOMAIN oq_seen[a], oq_seen[a][k].kind = "bad"
          PROVE  FALSE
      <3>1. k \in DOMAIN oq_bundle[b] /\ oq_bundle[b][k] = oq_seen[a][k]
        BY <2>2, <2>3 DEF Begins
      <3>2. oq_bundle[b][k] # TornLine
        BY <2>5, <3>1 DEF TornLine
      <3>3. k \in DOMAIN Loaded(oq_bundle[b]) /\ Loaded(oq_bundle[b])[k].kind = "bad"
        BY <2>5, <3>1, <3>2 DEF Loaded
      <3>. QED
        BY <2>4, <3>3 DEF Verdict
    <2>. QED
      BY <2>1, <2>5 DEF Verdict
  <1>4. ASSUME NEW c \in Askers, a # c,
               \/ VerifyAnswer(c) \/ EvaluateAnswer(c)
               \/ \E i \in Ids : Status(c, i)
               \/ \E w \in {"verify", "evaluate"}, b \in Bundles : Verify(c, w, b)
        PROVE  /\ oq_asks[a] = "answered" /\ oq_query'[a] = oq_query[a]
               /\ oq_seen'[a] = oq_seen[a] /\ oq_answer'[a] = oq_answer[a]
    <2>1. CASE \E w \in {"verify", "evaluate"}, b \in Bundles : Verify(c, w, b)
      BY <1>1, <1>4, <2>1 DEF Verify, OqTypes
    <2>2. CASE VerifyAnswer(c) \/ EvaluateAnswer(c) \/ \E i \in Ids : Status(c, i)
      <3>1. PICK what, i, b, answer : Answered(c, what, i, b, answer) /\ UNCHANGED oq_seen
        BY <2>2 DEF VerifyAnswer, EvaluateAnswer, Status
      <3>. QED
        BY <1>1, <1>4, <3>1 DEF Answered, OqTypes
    <2>. QED
      BY <1>4, <2>1, <2>2
  <1>5. ~ VerifyAnswer(a) /\ ~ (\E i \in Ids : Status(a, i))
        /\ ~ (\E w \in {"verify", "evaluate"}, b \in Bundles : Verify(a, w, b))
    <2>1. ~ VerifyAnswer(a)
      BY <1>1 DEF VerifyAnswer, Answered, OqTypes
    <2>2. ~ \E i \in Ids : Status(a, i)
      <3>1. ASSUME NEW i \in Ids, Status(a, i) PROVE oq_query'[a].what = "status"
        <4>1. oq_query' = [oq_query EXCEPT ![a] = [what |-> "status", id |-> i, bundle |-> None]]
          BY <3>1 DEF Status, Answered
        <4>2. oq_query = [c \in Askers |-> oq_query[c]]
          BY <1>1 DEF OqTypes
        <4>. QED
          BY <4>1, <4>2
      <3>. QED
        BY <3>1
    <2>3. ~ \E w \in {"verify", "evaluate"}, b \in Bundles : Verify(a, w, b)
      BY <1>1 DEF Verify, OqTypes
    <2>. QED
      BY <2>1, <2>2, <2>3
  <1>6. CASE UNCHANGED askVars
    BY <1>2, <1>6 DEF askVars
  <1>7. CASE Die
    BY <1>1, <1>2, <1>7 DEF Die, OqTypes
  <1>8. Restart \/ CliWrite \/ (\E b \in Bundles : CliOpen(b))
        \/ (\E s \in Starts : \/ \E i \in Ids, b \in Bundles : ObserveStart(s, i, b)
                              \/ Open(s) \/ Suspended(s) \/ Sampled(s) \/ Finalize(s)) => UNCHANGED askVars
    BY DEF Restart, CliWrite, CliOpen, ObserveStart, Open, Suspended, Sampled, Finalize
  <1>9. CASE Asking
    BY <1>2, <1>3, <1>4, <1>5, <1>9 DEF Asking
  <1>. QED
    BY <1>6, <1>7, <1>8, <1>9 DEF OqNext, Asking

LEMMA OqInvStep == OqAssumption /\ OqInv /\ [OqNext]_oqVars => OqInv'
  <1> SUFFICES ASSUME OqAssumption, OqInv, [OqNext]_oqVars
               PROVE  OqInv'
    OBVIOUS
  <1>1. CASE OqNext
    BY <1>1, OqTypesStep, SeenStep, CompletedStep, VerdictStep DEF OqInv
  <1>2. CASE UNCHANGED oqVars
    BY <1>2 DEF oqVars, OqInv, OqTypes, SeenBegins, CompletedHasBundle, VerdictIsOfVerified, Taking
  <1>. QED
    BY <1>1, <1>2

LEMMA InvOqTypeOK == OqInv => OqTypeOK
  BY DEF OqInv, OqTypes, OqTypeOK, Taking

\* handle_observe_*: a run that status calls completed has its end in the bundle or the bundle
\* is torn, and an evaluation that is called admissible and Satisfied is right about every
\* event that was verified, however many clients, runs and deaths of the daemon there are.
THEOREM ObservationsTrue ==
    ASSUME OqAssumption
    PROVE  OqSpec => [](OqTypeOK /\ AnswersHold)
  <1>1. OqInv => OqTypeOK /\ AnswersHold
    BY InvOqTypeOK DEF OqInv, AnswersHold
  <1>. QED
    BY <1>1, OqInvInit, OqInvStep, PTL DEF OqSpec

-----------------------------------------------------------------------------
(* Evidence                                                                *)

\* Captures can be counted, time begins at 1, and nothing is an event, or a state of the
\* manifest, by being absent.
AdAssumption ==
    /\ IsFiniteSet(Callers) /\ {MaxStart, MaxClock, MaxRefs} \subseteq Nat /\ MaxClock > 0
    /\ Binaries \subseteq Binary
    /\ None \notin Event /\ None # "whole"

RefType ==
    [provider : Providers, path : Paths, word : {None}, hash : Event, pid : Pids,
     start : 0..MaxStart, of : Event]
Busy == {c \in Callers : ad_pc[c] # "idle"}

AdTypes ==
    /\ ad_binary \in [Providers -> Binary]
    /\ ad_status \in [Providers -> {"unavailable", "degraded", "active"}]
    /\ ad_started \in [Providers -> BOOLEAN]
    /\ ad_clock \in 1..MaxClock
    /\ ad_file \in [Paths -> Event \cup {None}]
    /\ ad_pc \in [Callers -> {"idle", "write", "hash"}]
    /\ ad_event \in [Callers -> Event \cup {None}]
    /\ ad_name = [c \in Callers |-> ad_name[c]]
    /\ ad_refs \in Seq(RefType)
    /\ Len(ad_refs) + Cardinality(Busy) <= MaxRefs

\* A caller has the event it writes and the file's name; the event was written, or is not
\* the last one that was.
Capturing ==
    \A c \in Callers : ad_pc[c] # "idle" =>
        /\ ad_facts = None /\ ad_event[c] \in Event /\ ad_name[c] \in Paths
        /\ ad_pc[c] = "hash" =>
             /\ ad_file[ad_name[c]] # None
             /\ ad_file[ad_name[c]] = ad_event[c] \/ ad_name[c] \in ad_overwritten

\* A reference is to a file that exists.
References == \A i \in DOMAIN ad_refs : ad_file[ad_refs[i].path] # None

Exported ==
    /\ ad_facts # None => \E S : ad_facts \in Seq(S)
    /\ ad_jsonl # None => ad_facts # None /\ (ad_jsonl.ok => ad_jsonl.lines = ad_facts)
    /\ ad_json = "whole" => ad_jsonl # None /\ ad_jsonl.ok

AdInv == AdTypes /\ Capturing /\ References /\ RefTellsFile /\ FactsAddUp /\ Exported

\* In a set of places the j-th smallest has j places of the set up to itself.
LEMMA Ranks ==
    ASSUME NEW n \in Nat, NEW S \in SUBSET (1..n)
    PROVE  {Cardinality({k \in 1..j : k \in S}) : j \in S} = 1..Cardinality(S)
  <1> DEFINE Count(T, j) == Cardinality({k \in 1..j : k \in T})
             Good(T) == {Count(T, j) : j \in T} = 1..Cardinality(T)
             Bad == {m \in Nat : \E T \in SUBSET (1..m) : ~ Good(T)}
  <1> SUFFICES ASSUME Bad # {}
               PROVE  FALSE
    OBVIOUS
  <1>1. PICK m \in Bad : \A k \in Bad : <<k, m>> \notin OpToRel(<, Nat)
    BY NatLessThanWellFounded, WFMin
  <1>2. PICK T \in SUBSET (1..m) : ~ Good(T)
    OBVIOUS
  <1>3. m # 0
    <2>1. SUFFICES ASSUME m = 0 PROVE FALSE
      OBVIOUS
    <2>2. T = {}
      BY <2>1
    <2>3. Cardinality(T) = 0 /\ {Count(T, j) : j \in T} = {}
      BY <2>2, FS_EmptySet
    <2>4. 1..0 = {}
      OBVIOUS
    <2>. QED
      BY <1>2, <2>3, <2>4
  <1> DEFINE R == T \ {m}
  <1>4. m - 1 \in Nat /\ m - 1 < m /\ m \in Nat
    BY <1>3
  <1>5. R \in SUBSET (1..(m - 1))
    BY <1>4
  <1>6. Good(R)
    <2>1. <<m - 1, m>> \in OpToRel(<, Nat)
      BY <1>4 DEF OpToRel
    <2>2. m - 1 \notin Bad
      BY <1>1, <2>1
    <2>. QED
      BY <1>4, <1>5, <2>2
  <1>7. m \in T
    <2>1. m \notin T => R = T
      OBVIOUS
    <2> HIDE DEF R, Good
    <2>. QED
      BY <1>2, <1>6, <2>1
  <1>8. IsFiniteSet(R) /\ Cardinality(R) \in Nat /\ Cardinality(T) = Cardinality(R) + 1
    <2>1. IsFiniteSet(1..(m - 1))
      BY <1>4, FS_Interval
    <2>2. IsFiniteSet(R)
      BY <1>5, <2>1, FS_Subset
    <2>3. T = R \cup {m} /\ m \notin R
      BY <1>7
    <2>. QED
      BY <2>2, <2>3, FS_AddElement, FS_CardinalityType
  <1>9. ASSUME NEW j \in R PROVE Count(T, j) = Count(R, j)
    <2>1. {k \in 1..j : k \in T} = {k \in 1..j : k \in R}
      BY <1>4, <1>5
    <2>. QED
      BY <2>1
  <1>10. Count(T, m) = Cardinality(R) + 1
    <2>1. {k \in 1..m : k \in T} = T
      OBVIOUS
    <2>. QED
      BY <1>8, <2>1
  <1>11. {Count(T, j) : j \in T} = {Count(R, j) : j \in R} \cup {Cardinality(R) + 1}
    <2> HIDE DEF Count
    <2>1. T = R \cup {m}
      BY <1>7
    <2> HIDE DEF R
    <2>. QED
      BY <1>9, <1>10, <2>1
  <1>12. 1..(Cardinality(R) + 1) = (1..Cardinality(R)) \cup {Cardinality(R) + 1}
    BY <1>8
  <1> HIDE DEF Count
  <1>. QED
    BY <1>2, <1>6, <1>8, <1>11, <1>12

\* The facts of some references count the observations of each process.
LEMMA FactsCount ==
    ASSUME NEW n \in Nat, NEW refs, DOMAIN refs = 1..n,
           \A i \in 1..n : refs[i].start \in Nat, Reduced(refs) # None
    PROVE  LET facts == Reduced(refs) IN
           /\ facts \in Seq({facts[i] : i \in 1..n}) /\ Len(facts) = n
           /\ \A i \in DOMAIN facts :
                LET same == {j \in DOMAIN facts : facts[j].process = facts[i].process}
                IN  /\ {facts[j].observations : j \in same} = 1..Cardinality(same)
                    /\ facts[i].process.start > 0
  <1> DEFINE facts == Reduced(refs)
  <1>1. facts = [i \in 1..n |-> Fact(refs, i)] /\ \A i \in 1..n : refs[i].start # 0
    BY DEF Reduced
  <1>2. DOMAIN facts = 1..n /\ \A i \in 1..n : facts[i] = Fact(refs, i)
    BY <1>1
  <1>3. facts = [i \in 1..n |-> facts[i]]
    BY <1>1
  <1> HIDE DEF facts
  <1>4. facts \in Seq({facts[i] : i \in 1..n}) /\ Len(facts) = n
    <2>1. facts \in [1..n -> {facts[i] : i \in 1..n}]
      BY <1>3
    <2>. QED
      BY <2>1
  <1>5. ASSUME NEW i \in 1..n
        PROVE  LET same == {j \in 1..n : facts[j].process = facts[i].process}
               IN  {facts[j].observations : j \in same} = 1..Cardinality(same)
    <2> DEFINE same == {j \in 1..n : facts[j].process = facts[i].process}
    <2>1. \A j \in 1..n : facts[j].process = Key(refs[j])
      BY <1>2 DEF Fact, Key
    <2>2. same \in SUBSET (1..n) /\ \A j \in 1..n : j \in same <=> Key(refs[j]) = Key(refs[i])
      BY <2>1
    <2> HIDE DEF same
    <2>3. ASSUME NEW j \in same
          PROVE  facts[j].observations = Cardinality({k \in 1..j : k \in same})
      <3>1. j \in 1..n /\ Key(refs[j]) = Key(refs[i])
        BY <2>2
      <3>2. \A k \in 1..j : k \in 1..n
        BY <3>1
      <3>3. {k \in 1..j : Key(refs[k]) = Key(refs[j])} = {k \in 1..j : k \in same}
        BY <2>2, <3>1, <3>2
      <3>4. facts[j].observations = Observations(refs, j)
        BY <1>2, <3>1 DEF Fact
      <3>. QED
        BY <3>3, <3>4 DEF Observations
    <2>4. {facts[j].observations : j \in same} = {Cardinality({k \in 1..j : k \in same}) : j \in same}
      BY <2>3
    <2>5. {Cardinality({k \in 1..j : k \in same}) : j \in same} = 1..Cardinality(same)
      BY <2>2, Ranks
    <2>6. {facts[j].observations : j \in same} = 1..Cardinality(same)
      BY <2>4, <2>5
    <2>. QED
      BY <2>6 DEF same
  <1>6. ASSUME NEW i \in 1..n PROVE facts[i].process.start > 0
    <2>1. facts[i].process.start = refs[i].start
      BY <1>2 DEF Fact
    <2>. QED
      BY <1>1, <2>1
  <1>. QED
    BY <1>2, <1>4, <1>5, <1>6 DEF facts

LEMMA EventFields ==
    ASSUME NEW e \in Event
    PROVE  e.provider \in Providers /\ e.pid \in Pids /\ e.start \in 0..MaxStart
  BY DEF Event

LEMMA AdInvInit == AdAssumption /\ AdInit => AdInv
  <1> SUFFICES ASSUME AdAssumption, AdInit
               PROVE  AdInv
    OBVIOUS
  <1>1. Busy = {} /\ Cardinality({}) = 0
    BY FS_EmptySet DEF AdInit, Busy
  <1>2. \A b \in Binary : DetermineStatus(b) \in {"unavailable", "degraded", "active"}
    BY DEF Binary, DetermineStatus
  <1>3. ad_binary \in [Providers -> Binary]
    BY DEF AdInit, AdAssumption
  <1>4. ad_status \in [Providers -> {"unavailable", "degraded", "active"}]
    BY <1>2, <1>3 DEF AdInit
  <1>5. ad_refs \in Seq(RefType) /\ Len(ad_refs) = 0
    BY DEF AdInit
  <1>6. 1 \in 1..MaxClock /\ 0 <= MaxRefs
    BY DEF AdAssumption
  <1>7. AdTypes
    BY <1>1, <1>3, <1>4, <1>5, <1>6 DEF AdInit, AdTypes
  <1>. QED
    BY <1>5, <1>7
       DEF AdAssumption, AdInit, AdInv, Capturing, References, RefTellsFile, FactsAddUp, Exported

\* What a caller that begins or ends a capture does to their number.
LEMMA BusyStep ==
    ASSUME AdAssumption, NEW c \in Callers,
           \A d \in Callers : d # c => (ad_pc'[d] = "idle" <=> ad_pc[d] = "idle")
    PROVE  /\ Cardinality(Busy) \in Nat
           /\ ad_pc[c] = "idle" /\ ad_pc'[c] # "idle" => Cardinality(Busy') = Cardinality(Busy) + 1
           /\ ad_pc[c] # "idle" /\ ad_pc'[c] = "idle" => Cardinality(Busy') = Cardinality(Busy) - 1
           /\ ad_pc[c] # "idle" /\ ad_pc'[c] # "idle" => Busy' = Busy
  <1>1. IsFiniteSet(Busy)
    BY FS_Subset DEF AdAssumption, Busy
  <1>2. CASE ad_pc[c] = "idle" /\ ad_pc'[c] # "idle"
    <2>1. Busy' = Busy \cup {c} /\ c \notin Busy
      BY <1>2 DEF Busy
    <2>. QED
      BY <1>1, <1>2, <2>1, FS_AddElement, FS_CardinalityType
  <1>3. CASE ad_pc[c] # "idle" /\ ad_pc'[c] = "idle"
    <2>1. Busy' = Busy \ {c} /\ c \in Busy
      BY <1>3 DEF Busy
    <2>. QED
      BY <1>1, <1>3, <2>1, FS_RemoveElement, FS_CardinalityType
  <1>4. CASE ad_pc[c] # "idle" /\ ad_pc'[c] # "idle"
    <2>1. Busy' = Busy
      BY <1>4 DEF Busy
    <2>. QED
      BY <1>1, <1>4, <2>1, FS_CardinalityType
  <1>. QED
    BY <1>1, <1>2, <1>3, <1>4, FS_CardinalityType

\* FactsAddUp, of any facts.
CountUp(facts, n) ==
    /\ Len(facts) = n
    /\ \A i \in DOMAIN facts :
         LET same == {j \in DOMAIN facts : facts[j].process = facts[i].process}
         IN  /\ {facts[j].observations : j \in same} = 1..Cardinality(same)
             /\ facts[i].process.start > 0

LEMMA FactsKept ==
    ASSUME FactsAddUp, Exported, UNCHANGED <<ad_refs, ad_facts>>
    PROVE  /\ FactsAddUp'
           /\ UNCHANGED <<ad_jsonl, ad_json>> => Exported'
  <1>1. FactsAddUp <=> (ad_facts # None => CountUp(ad_facts, Len(ad_refs)))
    BY DEF FactsAddUp, CountUp
  <1>2. FactsAddUp' <=> (ad_facts' # None => CountUp(ad_facts', Len(ad_refs')))
    BY DEF FactsAddUp, CountUp
  <1>3. FactsAddUp'
    BY <1>1, <1>2
  <1>. QED
    BY <1>3 DEF Exported

LEMMA CaptureStep ==
    ASSUME AdAssumption, AdInv, NEW c \in Callers, NEW e \in Event, Capture(c, e)
    PROVE  AdInv'
  <1>1. AdTypes /\ Capturing /\ References
    BY DEF AdInv
  <1>2. e.provider \in Providers /\ Path(e.provider, ad_clock) \in Paths
    BY <1>1, EventFields DEF AdTypes, Path, Paths
  <1>3. Cardinality(Busy') = Cardinality(Busy) + 1 /\ Cardinality(Busy) \in Nat
    <2>1. /\ \A d \in Callers : d # c => (ad_pc'[d] = "idle" <=> ad_pc[d] = "idle")
          /\ ad_pc[c] = "idle" /\ ad_pc'[c] = "write"
      BY <1>1 DEF Capture, AdTypes
    <2>. QED
      BY <1>1, <2>1, BusyStep
  <1>4. Len(ad_refs) \in Nat /\ Len(ad_refs) + Cardinality(Busy) < MaxRefs /\ MaxRefs \in Nat
    BY <1>1 DEF Capture, AdTypes, AdAssumption, Busy
  <1>5. AdTypes'
    <2>1. Len(ad_refs') + Cardinality(Busy') <= MaxRefs
      BY <1>3, <1>4 DEF Capture
    <2>. QED
      BY <1>1, <1>2, <2>1 DEF Capture, AdTypes
  <1>6. Capturing'
    <2> SUFFICES ASSUME NEW d \in Callers, ad_pc'[d] # "idle"
                 PROVE  /\ ad_facts' = None /\ ad_event'[d] \in Event /\ ad_name'[d] \in Paths
                        /\ ad_pc'[d] = "hash" =>
                             /\ ad_file'[ad_name'[d]] # None
                             /\ ad_file'[ad_name'[d]] = ad_event'[d] \/ ad_name'[d] \in ad_overwritten'
      BY DEF Capturing
    <2>1. CASE d = c
      BY <1>1, <1>2, <2>1 DEF Capture, AdTypes, exportVars
    <2>2. CASE d # c
      BY <1>1, <2>2 DEF Capture, AdTypes, Capturing, exportVars
    <2>. QED
      BY <2>1, <2>2
  <1>. QED
    BY <1>5, <1>6 DEF Capture, AdInv, References, RefTellsFile, FactsAddUp, Exported, exportVars

LEMMA WriteStep ==
    ASSUME AdAssumption, AdInv, NEW c \in Callers, WriteArtifact(c)
    PROVE  AdInv'
  <1>1. AdTypes /\ Capturing /\ References /\ RefTellsFile
    BY DEF AdInv
  <1> DEFINE file == ad_name[c]
  <1>2. /\ ad_event[c] \in Event /\ file \in Paths /\ ad_event[c] # None /\ ad_facts = None
        /\ ad_pc[c] = "write"
    BY <1>1 DEF WriteArtifact, Capturing, AdAssumption
  <1>3. /\ \A f \in Paths : ad_file'[f] = IF f = file THEN ad_event[c] ELSE ad_file[f]
        /\ \A d \in Callers : ad_pc'[d] = IF d = c THEN "hash" ELSE ad_pc[d]
        /\ ad_file' \in [Paths -> Event \cup {None}]
    BY <1>1, <1>2 DEF WriteArtifact, AdTypes
  <1>4. /\ ad_overwritten \subseteq ad_overwritten'
        /\ ad_file[file] # None => file \in ad_overwritten'
    BY DEF WriteArtifact
  <1>5. AdTypes'
    <2>1. \A d \in Callers : d # c => (ad_pc'[d] = "idle" <=> ad_pc[d] = "idle")
      BY <1>3
    <2>2. Busy' = Busy
      BY <1>2, <1>3, <2>1, BusyStep
    <2>. QED
      BY <1>1, <1>3, <2>2 DEF WriteArtifact, AdTypes
  <1>6. Capturing'
    <2> SUFFICES ASSUME NEW d \in Callers, ad_pc'[d] # "idle"
                 PROVE  /\ ad_facts' = None /\ ad_event'[d] \in Event /\ ad_name'[d] \in Paths
                        /\ ad_pc'[d] = "hash" =>
                             /\ ad_file'[ad_name'[d]] # None
                             /\ ad_file'[ad_name'[d]] = ad_event'[d] \/ ad_name'[d] \in ad_overwritten'
      BY DEF Capturing
    <2>1. ad_facts' = ad_facts /\ ad_event' = ad_event /\ ad_name' = ad_name
      BY DEF WriteArtifact, exportVars
    <2>2. CASE d = c
      BY <1>2, <1>3, <2>1, <2>2
    <2>3. CASE d # c
      <3>1. /\ ad_facts = None /\ ad_event[d] \in Event /\ ad_name[d] \in Paths /\ ad_pc'[d] = ad_pc[d]
            /\ ad_pc[d] = "hash" =>
                 /\ ad_file[ad_name[d]] # None
                 /\ ad_file[ad_name[d]] = ad_event[d] \/ ad_name[d] \in ad_overwritten
        BY <1>1, <1>3, <2>3 DEF Capturing
      <3>2. CASE ad_name[d] = file
        BY <1>2, <1>3, <1>4, <2>1, <3>1, <3>2
      <3>3. CASE ad_name[d] # file
        BY <1>3, <1>4, <2>1, <3>1, <3>3
      <3>. QED
        BY <3>2, <3>3
    <2>. QED
      BY <2>2, <2>3
  <1>7. References' /\ RefTellsFile'
    <2> SUFFICES ASSUME NEW i \in DOMAIN ad_refs
                 PROVE  LET r == ad_refs[i] IN
                        /\ ad_file'[r.path] # None
                        /\ r.hash # r.of \/ ad_file'[r.path] # r.hash => r.path \in ad_overwritten'
      BY DEF WriteArtifact, References, RefTellsFile
    <2> DEFINE r == ad_refs[i]
    <2>1. r.path \in Paths
      <3>1. ad_refs[i] \in RefType
        BY <1>1 DEF AdTypes
      <3>. QED
        BY <3>1 DEF RefType
    <2>2. ad_file[r.path] # None /\ (r.hash # r.of \/ ad_file[r.path] # r.hash => r.path \in ad_overwritten)
      BY <1>1 DEF References, RefTellsFile
    <2>3. CASE r.path = file
      BY <1>2, <1>3, <1>4, <2>1, <2>2, <2>3
    <2>4. CASE r.path # file
      BY <1>3, <1>4, <2>1, <2>2, <2>4
    <2>. QED
      BY <2>3, <2>4
  <1>8. UNCHANGED <<ad_refs, ad_facts, ad_jsonl, ad_json>>
    BY DEF WriteArtifact, exportVars
  <1>9. FactsAddUp' /\ Exported'
    BY <1>8, FactsKept DEF AdInv
  <1>. QED
    BY <1>5, <1>6, <1>7, <1>9 DEF AdInv

LEMMA HashStep ==
    ASSUME AdAssumption, AdInv, NEW c \in Callers, Hash(c) \/ CaptureFails(c)
    PROVE  AdInv'
  <1>1. AdTypes /\ Capturing /\ References /\ RefTellsFile
    BY DEF AdInv
  <1> DEFINE e == ad_event[c]
             ref == Ref(e, ad_name[c], ad_file[ad_name[c]])
  <1>2. ad_pc[c] # "idle"
    BY DEF Hash, CaptureFails
  <1>3. e \in Event /\ ad_name[c] \in Paths /\ ad_facts = None
    BY <1>1, <1>2 DEF Capturing
  <1>4. /\ \A d \in Callers : ad_pc'[d] = IF d = c THEN "idle" ELSE ad_pc[d]
        /\ \A d \in Callers : d # c => ad_event'[d] = ad_event[d] /\ ad_name'[d] = ad_name[d]
        /\ UNCHANGED <<ad_file, ad_overwritten, exportVars>>
    BY <1>1 DEF Hash, CaptureFails, AdTypes
  <1>5. Capturing'
    BY <1>1, <1>4 DEF Capturing, exportVars
  <1>6. Cardinality(Busy') = Cardinality(Busy) - 1 /\ Cardinality(Busy) \in Nat
    <2>1. /\ \A d \in Callers : d # c => (ad_pc'[d] = "idle" <=> ad_pc[d] = "idle")
          /\ ad_pc'[c] = "idle"
      BY <1>4
    <2>. QED
      BY <1>2, <2>1, BusyStep
  <1>7. /\ Len(ad_refs) \in Nat /\ Len(ad_refs) + Cardinality(Busy) <= MaxRefs
        /\ MaxRefs \in Nat
    BY <1>1 DEF AdTypes, AdAssumption
  <1>8. /\ UNCHANGED <<ad_binary, ad_status, ad_started, ad_clock>>
        /\ ad_pc' \in [Callers -> {"idle", "write", "hash"}]
        /\ ad_event' \in [Callers -> Event \cup {None}] /\ ad_name' = [d \in Callers |-> ad_name'[d]]
    BY <1>1 DEF Hash, CaptureFails, AdTypes
  <1>9. CASE CaptureFails(c)
    <2>1. Len(ad_refs') + Cardinality(Busy') <= MaxRefs /\ ad_refs' = ad_refs
      BY <1>6, <1>7, <1>9 DEF CaptureFails
    <2>2. AdTypes'
      BY <1>1, <1>4, <1>8, <2>1 DEF AdTypes
    <2>3. UNCHANGED <<ad_refs, ad_facts, ad_jsonl, ad_json>>
      BY <1>4, <2>1 DEF exportVars
    <2>4. FactsAddUp' /\ Exported'
      BY <2>3, FactsKept DEF AdInv
    <2>5. References' /\ RefTellsFile'
      BY <1>1, <1>4, <2>1 DEF References, RefTellsFile
    <2>. QED
      BY <1>5, <2>2, <2>4, <2>5 DEF AdInv
  <1>10. CASE Hash(c)
    <2>1. /\ ad_file[ad_name[c]] # None /\ ad_file[ad_name[c]] \in Event
          /\ ad_file[ad_name[c]] = e \/ ad_name[c] \in ad_overwritten
      BY <1>1, <1>3, <1>10 DEF Hash, Capturing, AdTypes
    <2>2. ref \in RefType
      BY <1>3, <2>1, EventFields DEF Ref, RefType
    <2>3. ad_refs' = Append(ad_refs, ref) /\ ref.path = ad_name[c] /\ ref.hash = ad_file[ad_name[c]] /\ ref.of = e
      BY <1>10 DEF Hash, Ref
    <2> HIDE DEF ref
    <2>4. /\ ad_refs' \in Seq(RefType) /\ Len(ad_refs') = Len(ad_refs) + 1
          /\ DOMAIN ad_refs = 1..Len(ad_refs) /\ DOMAIN ad_refs' = 1..(Len(ad_refs) + 1)
          /\ \A i \in DOMAIN ad_refs : ad_refs'[i] = ad_refs[i]
          /\ ad_refs'[Len(ad_refs) + 1] = ref
      BY <1>1, <2>2, <2>3 DEF AdTypes
    <2>5. \A i \in DOMAIN ad_refs' : i \in DOMAIN ad_refs \/ i = Len(ad_refs) + 1
      BY <1>7, <2>4
    <2>6. AdTypes'
      <3>1. Len(ad_refs') + Cardinality(Busy') <= MaxRefs
        BY <1>6, <1>7, <2>4
      <3>. QED
        BY <1>1, <1>4, <1>8, <2>4, <3>1 DEF AdTypes
    <2>7. References' /\ RefTellsFile'
      <3> SUFFICES ASSUME NEW i \in DOMAIN ad_refs'
                   PROVE  LET r == ad_refs'[i] IN
                          /\ ad_file[r.path] # None
                          /\ r.hash # r.of \/ ad_file[r.path] # r.hash => r.path \in ad_overwritten
        BY <1>4 DEF References, RefTellsFile
      <3>1. CASE i \in DOMAIN ad_refs
        BY <1>1, <2>4, <3>1 DEF References, RefTellsFile
      <3>2. CASE i = Len(ad_refs) + 1
        BY <2>1, <2>3, <2>4, <3>2
      <3>. QED
        BY <2>5, <3>1, <3>2
    <2>8. ad_facts' = None /\ UNCHANGED <<ad_jsonl, ad_json>>
      BY <1>3, <1>4 DEF exportVars
    <2>9. FactsAddUp' /\ Exported'
      BY <1>3, <2>8 DEF AdInv, FactsAddUp, Exported
    <2>. QED
      BY <1>5, <2>6, <2>7, <2>9 DEF AdInv
  <1>. QED
    BY <1>9, <1>10

LEMMA ReduceStep == AdAssumption /\ AdInv /\ Reduce => AdInv'
  <1> SUFFICES ASSUME AdAssumption, AdInv, Reduce
               PROVE  AdInv'
    OBVIOUS
  <1>1. AdTypes /\ Exported
    BY DEF AdInv
  <1> DEFINE n == Len(ad_refs)
  <1>2. n \in Nat /\ DOMAIN ad_refs = 1..n /\ \A i \in 1..n : ad_refs[i] \in RefType
    BY <1>1 DEF AdTypes
  <1>3. PICK refs : /\ DOMAIN refs = 1..n /\ \A i \in 1..n : refs[i].start = ad_refs[i].start
                    /\ ad_facts' = Reduced(refs)
    <2>1. CASE ad_facts' = Reduced(ad_refs)
      BY <1>2, <2>1
    <2>2. ASSUME NEW w \in Words
          PROVE  LET refs == [ad_refs EXCEPT ![1].word = w, ![1].of.type = w] IN
                 DOMAIN refs = 1..n /\ \A i \in 1..n : refs[i].start = ad_refs[i].start
      <3> DEFINE refs == [ad_refs EXCEPT ![1].word = w, ![1].of.type = w]
      <3>1. 1 \in 1..n => "start" \in DOMAIN ad_refs[1]
        BY <1>2 DEF RefType
      <3>. QED
        BY <1>2, <3>1 DEF RefType
    <2>. QED
      BY <2>1, <2>2 DEF Reduce
  <1>4. \A i \in 1..n : refs[i].start \in Nat
    BY <1>2, <1>3 DEF RefType
  <1>5. ad_facts' # None /\ UNCHANGED <<ad_refs, ad_jsonl, ad_json>>
    BY DEF Reduce
  <1>6. FactsAddUp' /\ \E S : ad_facts' \in Seq(S)
    <2>1. Reduced(refs) # None
      BY <1>3, <1>5
    <2> DEFINE facts == Reduced(refs)
               Same(i) == {j \in DOMAIN facts : facts[j].process = facts[i].process}
    <2>2. /\ facts \in Seq({facts[i] : i \in 1..n}) /\ Len(facts) = n
          /\ \A i \in DOMAIN facts :
               LET same == {j \in DOMAIN facts : facts[j].process = facts[i].process}
               IN  /\ {facts[j].observations : j \in same} = 1..Cardinality(same)
                   /\ facts[i].process.start > 0
      BY <1>2, <1>3, <1>4, <2>1, FactsCount
    <2>3. ad_facts' = facts /\ Len(ad_refs') = n
      BY <1>3, <1>5
    <2> HIDE DEF facts
    <2>4. FactsAddUp'
      BY <2>2, <2>3 DEF FactsAddUp
    <2>5. \E S : ad_facts' \in Seq(S)
      BY <2>2, <2>3
    <2>. QED
      BY <2>4, <2>5
  <1>7. AdTypes'
    BY <1>1 DEF Reduce, AdTypes, Busy
  <1>8. Capturing'
    BY DEF Reduce, Capturing
  <1>9. Exported'
    BY <1>1, <1>5, <1>6 DEF Reduce, Exported
  <1>. QED
    BY <1>6, <1>7, <1>8, <1>9 DEF AdInv, Reduce, References, RefTellsFile

\* What neither captures nor reduces: adapters, the clock, the manifest and the export.
LEMMA ExportStep ==
    AdAssumption /\ AdInv /\ (ExportFacts \/ ExportManifest \/ SetManifest) => AdInv'
  <1> SUFFICES ASSUME AdAssumption, AdInv, ExportFacts \/ ExportManifest \/ SetManifest
               PROVE  AdInv'
    OBVIOUS
  <1>1. UNCHANGED capturedVars
    BY DEF ExportFacts, ExportManifest, SetManifest
  <1>2. AdTypes' /\ Capturing' /\ References' /\ RefTellsFile'
    BY <1>1 DEF AdInv, AdTypes, Busy, Capturing, References, RefTellsFile, capturedVars
  <1>3. Exported /\ ad_facts' = ad_facts /\ ad_refs' = ad_refs
    BY <1>1 DEF AdInv, capturedVars
  <1>4. FactsAddUp'
    BY <1>3, FactsKept DEF AdInv
  <1>5. CASE ExportFacts
    <2>1. PICK n \in 0..Len(ad_facts) :
            ad_jsonl' = [lines |-> SubSeq(ad_facts, 1, n), ok |-> n = Len(ad_facts)]
      BY <1>5 DEF ExportFacts
    <2>2. ad_facts # None /\ ad_jsonl = None /\ ad_json' = ad_json
      BY <1>5 DEF ExportFacts
    <2>3. PICK S : ad_facts \in Seq(S)
      BY <1>3, <2>2 DEF Exported
    <2>4. SubSeq(ad_facts, 1, Len(ad_facts)) = ad_facts
      BY <2>3
    <2>5. ad_jsonl'.ok => ad_jsonl'.lines = ad_facts
      BY <2>1, <2>4
    <2>6. ad_json # "whole"
      BY <1>3, <2>2 DEF Exported
    <2>. QED
      BY <1>2, <1>3, <1>4, <2>2, <2>5, <2>6 DEF AdInv, Exported
  <1>6. CASE ExportManifest \/ SetManifest
    BY <1>2, <1>3, <1>4, <1>6 DEF AdInv, Exported, ExportManifest, SetManifest
  <1>. QED
    BY <1>5, <1>6

LEMMA AdapterStep ==
    ASSUME AdAssumption, AdInv, Tick \/ (\E p \in Providers : Start(p) \/ Stop(p))
    PROVE  AdInv'
  <1>1. UNCHANGED <<ad_binary, ad_status, ad_file, ad_pc, ad_event, ad_name, ad_refs, ad_overwritten,
                    ad_facts, ad_manifest, ad_jsonl, ad_json>>
    BY DEF Tick, Start, Stop, exportVars
  <1>2. ad_started' \in [Providers -> BOOLEAN]
    BY DEF Tick, Start, Stop, AdInv, AdTypes
  <1>3. ad_clock' \in 1..MaxClock
    <2>1. ad_clock \in 1..MaxClock /\ MaxClock \in Nat
      BY DEF AdInv, AdTypes, AdAssumption
    <2>. QED
      BY <2>1 DEF Tick, Start, Stop
  <1>4. AdTypes'
    BY <1>1, <1>2, <1>3 DEF AdInv, AdTypes, Busy
  <1>5. FactsAddUp' /\ Exported'
    BY <1>1, FactsKept DEF AdInv
  <1>. QED
    BY <1>1, <1>4, <1>5 DEF AdInv, Capturing, References, RefTellsFile

LEMMA AdInvStep == AdAssumption /\ AdInv /\ [AdNext]_adVars => AdInv'
  <1> SUFFICES ASSUME AdAssumption, AdInv, [AdNext]_adVars
               PROVE  AdInv'
    OBVIOUS
  <1>1. CASE UNCHANGED adVars
    <2>1. FactsAddUp' /\ Exported'
      BY <1>1, FactsKept DEF adVars, AdInv
    <2>. QED
      BY <1>1, <2>1 DEF adVars, AdInv, AdTypes, Busy, Capturing, References, RefTellsFile
  <1>2. CASE AdNext
    <2>1. CASE \E c \in Callers : \/ \E e \in Event : Capture(c, e)
                                  \/ WriteArtifact(c) \/ Hash(c) \/ CaptureFails(c)
      BY <2>1, CaptureStep, WriteStep, HashStep
    <2>2. CASE Tick \/ (\E p \in Providers : Start(p) \/ Stop(p))
      BY <2>2, AdapterStep
    <2>3. CASE Reduce \/ ExportFacts \/ ExportManifest \/ SetManifest
      BY <2>3, ReduceStep, ExportStep
    <2>. QED
      BY <1>2, <2>1, <2>2, <2>3 DEF AdNext
  <1>. QED
    BY <1>1, <1>2

LEMMA InvEvidence == AdAssumption /\ AdInv => AdTypeOK /\ EvidenceAddsUp
  <1> SUFFICES ASSUME AdAssumption, AdInv
               PROVE  AdTypeOK /\ EvidenceAddsUp
    OBVIOUS
  <1>1. Len(ad_refs) <= MaxRefs
    <2>1. IsFiniteSet(Busy)
      BY FS_Subset DEF AdAssumption, Busy
    <2>2. Cardinality(Busy) \in Nat
      BY <2>1, FS_CardinalityType
    <2>3. Len(ad_refs) \in Nat /\ Len(ad_refs) + Cardinality(Busy) <= MaxRefs /\ MaxRefs \in Nat
      BY DEF AdInv, AdTypes, AdAssumption
    <2>. QED
      BY <2>2, <2>3
  <1>2. ManifestHasFacts
    BY DEF AdInv, Exported, ManifestHasFacts
  <1>. QED
    BY <1>1, <1>2 DEF AdInv, AdTypes, AdTypeOK, EvidenceAddsUp

\* capture_artifact, reduce_artifacts, export_all: a reference that does not tell what its file
\* holds is to a file that two captures of one second wrote, the facts of every process count
\* its observations without a gap, and a manifest that was written whole attests all the facts.
THEOREM EvidenceTrue ==
    ASSUME AdAssumption PROVE AdSpec => [](AdTypeOK /\ EvidenceAddsUp)
  <1>1. AdInit => AdInv
    BY AdInvInit
  <1>2. AdInv /\ [AdNext]_adVars => AdInv'
    BY AdInvStep
  <1>3. AdInv => AdTypeOK /\ EvidenceAddsUp
    BY InvEvidence
  <1>. QED
    BY <1>1, <1>2, <1>3, PTL DEF AdSpec

-----------------------------------------------------------------------------
(* Sessions                                                                *)

\* A prompt has a number of steps, and no run is the absence of one.
SessAssumption == Steps \in [Runs -> Nat] /\ None \notin Runs

Label == {"new", "find", "create", "show", "loop", "exec", "add", "read", "save", "poll", "mark",
          "truncate", "fill", "rename"} \cup Ended
SessionFile ==
    [whole : BOOLEAN, name : {Name, None}, jobs : SUBSET Job,
     status : {"absent", "torn", "active", "terminated", "completed"}, inode : Runs \cup {None}]

RunTypes ==
    /\ pc \in [Runs -> Label]
    /\ name \in [Runs -> {Name, None}] /\ policy \in [Runs -> {"continue", "stop"}]
    /\ via \in [Runs -> BOOLEAN] /\ sid \in [Runs -> Runs \cup {None}]
    /\ lock \in [Runs -> Runs \cup {None}] /\ fd \in [Runs -> Runs \cup {None}]
    /\ users \in [Runs -> SUBSET Runs]

LoopTypes ==
    /\ step \in [Runs -> Nat \ {0}] /\ \A r \in Runs : step[r] <= Steps[r] + 1
    /\ failed \in [Runs -> BOOLEAN] /\ terminated \in [Runs -> BOOLEAN]
    /\ outcomes \in [Job -> {"none", "ok", "failed"}]
    /\ jobs \in [Job -> {"none", "running", "completed", "failed"}]

FileTypes ==
    /\ files \in [Runs -> SessionFile] /\ tmp \in [Runs -> SessionFile]
    /\ copy \in [Runs -> SessionFile] /\ added \in [Runs -> SUBSET Job]

\* A session has its users, the run that made it among them, and is empty before that.
Owned ==
    /\ \A i \in Runs, r \in Runs : r \in users[i] <=> sid[r] = i
    /\ \A i \in Runs : users[i] # {} => i \in users[i]
    /\ \A i \in Runs : users[i] = {} => ~ files[i].whole /\ added[i] = {}

\* Where a run is tells what it has: a session, a step to execute, a reason to end.
Placed(r) ==
    /\ pc[r] \in {"new", "find", "create"} => sid[r] = None
    /\ pc[r] \notin {"new", "find", "create"} \cup Ended => sid[r] \in Runs
    /\ pc[r] \in {"exec", "add", "read", "save", "poll"} => step[r] <= Steps[r]
    /\ pc[r] \in {"mark", "truncate", "fill", "rename"} => terminated[r] \/ step[r] > Steps[r]

\* Good steps are behind the run and have completed jobs; without a failure all are good.
Honest(r) ==
    /\ \A s \in 1..Steps[r] : outcomes[<<r, s>>] = "ok" => s < step[r] /\ jobs[<<r, s>>] = "completed"
    /\ ~ failed[r] => \A s \in 1..Steps[r] : s < step[r] => outcomes[<<r, s>>] = "ok"

\* The session of a run that nobody else has used: what is in the file, and in the copies
\* that are on their way to it.
Tells(f, r) == f.whole /\ f.jobs = added[r] /\ f.status = FinalStatus(r)

Sole(r) ==
    /\ files[r].whole /\ files[r].jobs = added[r]
    /\ \/ files[r].status = "active"
       \/ /\ files[r].status = FinalStatus(r)
          /\ pc[r] \in Ended /\ (terminated[r] \/ step[r] > Steps[r])
    /\ pc[r] = "save" => copy[r] = files[r]
    /\ pc[r] \in {"truncate", "fill"} => Tells(copy[r], r)
    /\ pc[r] = "fill" => tmp[r].inode = fd[r] /\ ~ tmp[r].whole
    /\ pc[r] = "rename" => Tells(tmp[r], r)

SessInv ==
    /\ RunTypes /\ LoopTypes /\ FileTypes /\ Owned
    /\ \A r \in Runs : Placed(r) /\ Honest(r) /\ (users[r] = {r} => Sole(r))

\* The state that is not of a run r and of its session stays.
Others(r) ==
    /\ \A q \in Runs : q # r =>
         /\ pc'[q] = pc[q] /\ policy'[q] = policy[q] /\ sid'[q] = sid[q] /\ step'[q] = step[q]
         /\ failed'[q] = failed[q] /\ terminated'[q] = terminated[q]
         /\ copy'[q] = copy[q] /\ fd'[q] = fd[q]
         /\ \A s \in 1..Steps[q] : /\ outcomes'[<<q, s>>] = outcomes[<<q, s>>]
                                   /\ jobs'[<<q, s>>] = jobs[<<q, s>>]
    /\ \A i \in Runs : i # sid'[r] =>
         files'[i] = files[i] /\ tmp'[i] = tmp[i] /\ added'[i] = added[i] /\ users'[i] = users[i]

LEMMA JobPairs == SessAssumption => \A r \in Runs : \A s \in 1..Steps[r] : <<r, s>> \in Job
  <1> SUFFICES ASSUME SessAssumption, NEW r \in Runs, NEW s \in 1..Steps[r]
               PROVE  <<r, s>> \in Job
    OBVIOUS
  <1>1. <<r, s>> \in {r} \X (1..Steps[r])
    OBVIOUS
  <1>. QED
    BY <1>1 DEF Job

LEMMA JobIsPair ==
    ASSUME NEW j \in Job PROVE j[1] \in Runs /\ j[2] \in 1..Steps[j[1]] /\ j = <<j[1], j[2]>>
  <1>1. PICK r \in Runs : j \in {r} \X (1..Steps[r])
    BY DEF Job
  <1>2. j = <<j[1], j[2]>> /\ j[1] = r /\ j[2] \in 1..Steps[r]
    BY <1>1
  <1>. QED
    BY <1>2

LEMMA FileValues ==
    /\ Absent \in SessionFile
    /\ \A i \in Runs \cup {None} : Torn(i) \in SessionFile /\ Torn(i).inode = i /\ ~ Torn(i).whole
    /\ ~ Absent.whole
  BY DEF Absent, Torn, SessionFile

LEMMA FileChanges ==
    ASSUME NEW f \in SessionFile, NEW js \in SUBSET Job, NEW i \in Runs \cup {None},
           NEW s \in {"absent", "torn", "active", "terminated", "completed"}
    PROVE  /\ [f EXCEPT !.inode = i] \in SessionFile
           /\ [f EXCEPT !.status = s, !.inode = i] \in SessionFile
           /\ [f EXCEPT !.jobs = js, !.inode = i] \in SessionFile
           /\ f.jobs \in SUBSET Job
  BY DEF SessionFile

LEMMA SessInvInit == SessAssumption /\ SessInit => SessInv
  <1> SUFFICES ASSUME SessAssumption, SessInit
               PROVE  SessInv
    OBVIOUS
  <1>1. RunTypes
    BY DEF SessInit, RunTypes, Label
  <1>2. LoopTypes
    BY DEF SessInit, LoopTypes, SessAssumption
  <1>3. FileTypes
    BY FileValues DEF SessInit, FileTypes
  <1>4. Owned
    BY FileValues DEF SessInit, Owned, SessAssumption
  <1>5. ASSUME NEW r \in Runs PROVE Placed(r) /\ Honest(r) /\ users[r] = {}
    <2>1. \A s \in 1..Steps[r] : outcomes[<<r, s>>] = "none"
      BY JobPairs DEF SessInit
    <2>2. step[r] = 1 /\ pc[r] = "new" /\ sid[r] = None /\ Steps[r] \in Nat
      BY DEF SessInit, SessAssumption
    <2>. QED
      BY <2>1, <2>2 DEF SessInit, Placed, Honest
  <1>. QED
    BY <1>1, <1>2, <1>3, <1>4, <1>5 DEF SessInv

\* A step of one run leaves the others what they had.
LEMMA SessKept ==
    ASSUME SessInv, NEW r \in Runs, RunTypes', LoopTypes', FileTypes', Owned', Others(r),
           Placed(r)', Honest(r)', users'[r] = {r} => Sole(r)'
    PROVE  SessInv'
  <1> SUFFICES ASSUME NEW q \in Runs, q # r
               PROVE  Placed(q)' /\ Honest(q)' /\ (users'[q] = {q} => Sole(q)')
    BY DEF SessInv
  <1>1. Placed(q) /\ Honest(q) /\ (users[q] = {q} => Sole(q))
    BY DEF SessInv
  <1>2. /\ pc'[q] = pc[q] /\ policy'[q] = policy[q] /\ sid'[q] = sid[q] /\ step'[q] = step[q]
        /\ failed'[q] = failed[q] /\ terminated'[q] = terminated[q]
        /\ copy'[q] = copy[q] /\ fd'[q] = fd[q]
    BY DEF Others
  <1>3. \A s \in 1..Steps[q] : /\ outcomes'[<<q, s>>] = outcomes[<<q, s>>]
                               /\ jobs'[<<q, s>>] = jobs[<<q, s>>]
    BY DEF Others
  <1>4. ASSUME users'[q] = {q} PROVE Sole(q)'
    <2>1. sid'[r] # q
      BY <1>4 DEF Owned
    <2>2. /\ files'[q] = files[q] /\ tmp'[q] = tmp[q] /\ added'[q] = added[q]
          /\ users'[q] = users[q]
      BY <2>1 DEF Others
    <2>. QED
      BY <1>1, <1>2, <1>4, <2>2 DEF Sole, Tells, FinalStatus
  <1>5. Placed(q)'
    BY <1>1, <1>2 DEF Placed
  <1>6. Honest(q)'
    BY <1>1, <1>2, <1>3 DEF Honest
  <1>. QED
    BY <1>4, <1>5, <1>6

\* Without a new user the sessions are whose they were.
LEMMA OwnedKept ==
    ASSUME SessInv, NEW r \in Runs, Others(r), UNCHANGED <<sid, users>>
    PROVE  Owned'
  <1>1. Owned
    BY DEF SessInv
  <1>2. ASSUME NEW i \in Runs, users[i] = {} PROVE files'[i] = files[i] /\ added'[i] = added[i]
    <2>1. sid[r] # i
      BY <1>1, <1>2 DEF Owned
    <2>. QED
      BY <2>1 DEF Others
  <1>. QED
    BY <1>1, <1>2 DEF Owned

\* What comes after a step, good or bad.
LEMMA StepDoneKept ==
    ASSUME SessAssumption, SessInv, NEW r \in Runs, NEW ok \in BOOLEAN, StepDone(r, ok),
           step[r] <= Steps[r], jobs' = jobs, ok => jobs[<<r, step[r]>>] = "completed", sid'[r] \in Runs
    PROVE  /\ LoopTypes' /\ Placed(r)' /\ Honest(r)'
           /\ pc' \in [Runs -> Label] /\ pc'[r] \in {"loop", "mark"}
           /\ \A q \in Runs : q # r =>
                /\ pc'[q] = pc[q] /\ step'[q] = step[q]
                /\ failed'[q] = failed[q] /\ terminated'[q] = terminated[q]
                /\ \A s \in 1..Steps[q] : outcomes'[<<q, s>>] = outcomes[<<q, s>>]
  <1>1. RunTypes /\ LoopTypes /\ Honest(r)
    BY DEF SessInv
  <1> DEFINE j == <<r, step[r]>>
             o == IF ok THEN "ok" ELSE "failed"
  <1>2. /\ step[r] \in Nat /\ step[r] > 0 /\ Steps[r] \in Nat
        /\ step[r] \in 1..Steps[r]
    BY <1>1 DEF LoopTypes, SessAssumption
  <1>3. j \in Job
    BY <1>2, JobPairs
  <1>4. outcomes' = [outcomes EXCEPT ![j] = o] /\ o \in {"none", "ok", "failed"}
    BY DEF StepDone
  <1>5. outcomes' \in [Job -> {"none", "ok", "failed"}] /\ outcomes'[j] = o
        /\ \A k \in Job : k # j => outcomes'[k] = outcomes[k]
    BY <1>1, <1>3, <1>4 DEF LoopTypes
  <1> HIDE DEF o
  <1>6. failed' = [failed EXCEPT ![r] = failed[r] \/ ~ ok]
    BY DEF StepDone
  <1>7. failed' \in [Runs -> BOOLEAN] /\ (~ failed'[r] => ok /\ ~ failed[r])
        /\ \A q \in Runs : q # r => failed'[q] = failed[q]
    BY <1>1, <1>6 DEF LoopTypes
  <1>8. \/ /\ ~ ok /\ terminated'[r] = TRUE /\ step' = step /\ pc'[r] = "mark"
           /\ terminated' \in [Runs -> BOOLEAN] /\ pc' \in [Runs -> Label]
           /\ \A q \in Runs : q # r => pc'[q] = pc[q] /\ terminated'[q] = terminated[q]
        \/ /\ step' = [step EXCEPT ![r] = step[r] + 1] /\ terminated' = terminated /\ pc'[r] = "loop"
           /\ pc' \in [Runs -> Label] /\ \A q \in Runs : q # r => pc'[q] = pc[q]
    <2>1. "mark" \in Label /\ "loop" \in Label
      BY DEF Label
    <2>2. CASE ~ ok /\ policy[r] = "stop"
      <3>1. /\ pc' = [pc EXCEPT ![r] = "mark"] /\ terminated' = [terminated EXCEPT ![r] = TRUE]
            /\ step' = step
        BY <2>2 DEF StepDone, Goto
      <3>. QED
        BY <1>1, <2>1, <2>2, <3>1 DEF LoopTypes, RunTypes
    <2>3. CASE ~ (~ ok /\ policy[r] = "stop")
      <3>1. /\ pc' = [pc EXCEPT ![r] = "loop"] /\ terminated' = terminated
            /\ step' = [step EXCEPT ![r] = step[r] + 1]
        BY <2>3 DEF StepDone, Goto
      <3>. QED
        BY <1>1, <2>1, <3>1 DEF RunTypes
    <2>. QED
      BY <2>2, <2>3
  <1>9. /\ step' \in [Runs -> Nat \ {0}] /\ \A q \in Runs : step'[q] <= Steps[q] + 1
        /\ \A q \in Runs : q # r => step'[q] = step[q]
        /\ step'[r] = step[r] \/ (step'[r] = step[r] + 1)
        /\ pc'[r] = "mark" => terminated'[r] /\ ~ ok
        /\ ok => step'[r] = step[r] + 1
    BY <1>1, <1>2, <1>8 DEF LoopTypes
  <1>10. LoopTypes'
    BY <1>1, <1>5, <1>7, <1>8, <1>9 DEF LoopTypes
  <1>11. Placed(r)'
    BY <1>8, <1>9, <1>1 DEF Placed, SessAssumption
  <1>12. Honest(r)'
    <2>1. ASSUME NEW s \in 1..Steps[r], outcomes'[<<r, s>>] = "ok"
          PROVE  s < step'[r] /\ jobs'[<<r, s>>] = "completed"
      <3>1. CASE s = step[r]
        <4>1. ok
          BY <1>5, <2>1, <3>1 DEF o
        <4>. QED
          BY <1>2, <1>9, <3>1, <4>1
      <3>2. CASE s # step[r]
        <4>1. <<r, s>> \in Job /\ <<r, s>> # j
          BY <3>2, JobPairs
        <4>2. outcomes[<<r, s>>] = "ok"
          BY <1>5, <2>1, <4>1
        <4>3. s < step[r] /\ jobs[<<r, s>>] = "completed"
          BY <1>1, <4>2 DEF Honest
        <4>. QED
          BY <1>2, <1>9, <4>3
      <3>. QED
        BY <3>1, <3>2
    <2>2. ASSUME ~ failed'[r], NEW s \in 1..Steps[r], s < step'[r]
          PROVE  outcomes'[<<r, s>>] = "ok"
      <3>1. ok /\ ~ failed[r] /\ step'[r] = step[r] + 1
        BY <1>7, <1>9, <2>2
      <3>2. CASE s = step[r]
        BY <1>5, <3>1, <3>2 DEF o
      <3>3. CASE s # step[r]
        <4>1. <<r, s>> \in Job /\ <<r, s>> # j
          BY <3>3, JobPairs
        <4>2. s < step[r]
          BY <1>2, <2>2, <3>1, <3>3
        <4>3. outcomes[<<r, s>>] = "ok"
          BY <1>1, <3>1, <4>2 DEF Honest
        <4>. QED
          BY <1>5, <4>1, <4>3
      <3>. QED
        BY <3>2, <3>3
    <2>. QED
      BY <2>1, <2>2 DEF Honest
  <1>13. ASSUME NEW q \in Runs, q # r, NEW s \in 1..Steps[q]
         PROVE  outcomes'[<<q, s>>] = outcomes[<<q, s>>]
    <2>1. <<q, s>> \in Job /\ <<q, s>> # j
      BY <1>13, JobPairs
    <2>. QED
      BY <1>5, <2>1
  <1>. QED
    BY <1>7, <1>8, <1>9, <1>10, <1>11, <1>12, <1>13

LEMMA AddedKept ==
    ASSUME SessAssumption, SessInv, NEW r \in Runs, Added(r),
           pc[r] \in {"read", "save"}, jobs' = jobs, sid' = sid
    PROVE  /\ LoopTypes' /\ Placed(r)' /\ Honest(r)'
           /\ pc' \in [Runs -> Label] /\ pc'[r] \in {"poll", "loop", "mark"}
           /\ \A q \in Runs : q # r =>
                /\ pc'[q] = pc[q] /\ step'[q] = step[q]
                /\ failed'[q] = failed[q] /\ terminated'[q] = terminated[q]
                /\ \A s \in 1..Steps[q] : outcomes'[<<q, s>>] = outcomes[<<q, s>>]
  <1>1. RunTypes /\ LoopTypes /\ Honest(r) /\ Placed(r)
    BY DEF SessInv
  <1>2. step[r] <= Steps[r] /\ sid[r] \in Runs
    BY <1>1 DEF Placed, Ended
  <1>3. CASE via[r]
    <2>1. pc' = [pc EXCEPT ![r] = "poll"] /\ UNCHANGED <<step, failed, terminated, outcomes>>
      BY <1>3 DEF Added, Goto, loop
    <2>2. /\ pc' \in [Runs -> Label] /\ pc'[r] = "poll"
          /\ \A q \in Runs : q # r => pc'[q] = pc[q]
      BY <1>1, <2>1 DEF RunTypes, Label
    <2>. QED
      BY <1>1, <1>2, <2>1, <2>2 DEF LoopTypes, Placed, Honest
  <1>4. CASE ~ via[r]
    <2> DEFINE ok == jobs[<<r, step[r]>>] = "completed"
    <2>1. StepDone(r, ok) /\ ok \in BOOLEAN /\ (ok => jobs[<<r, step[r]>>] = "completed")
      BY <1>4 DEF Added
    <2> HIDE DEF ok
    <2>. QED
      BY <1>2, <2>1, StepDoneKept
  <1>. QED
    BY <1>3, <1>4

\* A step that ends without a job that is recorded by now.
LEMMA SteppedKept ==
    ASSUME SessAssumption, SessInv, NEW r \in Runs,
           BlockStep(r) \/ CapabilityError(r) \/ PollTerminal(r) \/ PollGivesUp(r)
    PROVE  SessInv'
  <1>1. RunTypes /\ LoopTypes /\ FileTypes /\ Placed(r) /\ Honest(r) /\ Owned /\ (users[r] = {r} => Sole(r))
    BY DEF SessInv
  <1>2. PICK ok \in BOOLEAN : StepDone(r, ok) /\ (ok => jobs[<<r, step[r]>>] = "completed")
    BY DEF BlockStep, CapabilityError, PollTerminal, PollGivesUp, Polled
  <1>3. pc[r] \in {"loop", "exec", "poll"} /\ step[r] <= Steps[r] /\ sid[r] \in Runs
    BY <1>1 DEF BlockStep, CapabilityError, PollTerminal, PollGivesUp, InLoop, Placed, Ended
  <1>4. UNCHANGED <<args, sid, files, tmp, lock, copy, fd, jobs, added, users>>
    BY DEF BlockStep, CapabilityError, PollTerminal, PollGivesUp
  <1>5. /\ LoopTypes' /\ Placed(r)' /\ Honest(r)'
        /\ pc' \in [Runs -> Label] /\ pc'[r] \in {"loop", "mark"}
        /\ \A q \in Runs : q # r =>
             /\ pc'[q] = pc[q] /\ step'[q] = step[q]
             /\ failed'[q] = failed[q] /\ terminated'[q] = terminated[q]
             /\ \A s \in 1..Steps[q] : outcomes'[<<q, s>>] = outcomes[<<q, s>>]
    BY <1>2, <1>3, <1>4, StepDoneKept
  <1>6. RunTypes' /\ FileTypes'
    BY <1>1, <1>4, <1>5 DEF RunTypes, FileTypes, args
  <1>7. Others(r)
    BY <1>4, <1>5 DEF Others, args
  <1>8. users'[r] = {r} => Sole(r)'
    BY <1>1, <1>3, <1>4, <1>5 DEF Sole, Ended
  <1>9. Owned'
    BY <1>4, <1>7, OwnedKept
  <1>. QED
    BY <1>5, <1>6, <1>7, <1>8, <1>9, SessKept

\* Steps of a run that change nothing but where it is and, at most, the lock.
LEMMA WaitsKept ==
    ASSUME SessAssumption, SessInv, NEW r \in Runs,
           \/ ShowSession(r) \/ LoopEnds(r) \/ ExecuteLocally(r) \/ ExecutorError(r)
           \/ LockSession(r)
    PROVE  SessInv'
  <1>1. RunTypes /\ LoopTypes /\ FileTypes /\ Placed(r) /\ Honest(r) /\ Owned /\ (users[r] = {r} => Sole(r))
    BY DEF SessInv
  <1>2. PICK to \in {"loop", "aborted", "mark", "exec", "read"} : Goto(r, to)
    BY DEF ShowSession, LoopEnds, ExecuteLocally, ExecutorError, LockSession
  <1>3. /\ pc[r] \in {"show", "loop", "exec", "add"}
        /\ to = "mark" => step[r] > Steps[r]
        /\ to \in {"exec", "read"} => step[r] <= Steps[r]
    <2>1. pc'[r] = to
      BY <1>1, <1>2 DEF Goto, RunTypes
    <2>. QED
      BY <1>1, <2>1 DEF ShowSession, LoopEnds, ExecuteLocally, ExecutorError, LockSession, InLoop,
                        Placed, Goto, RunTypes
  <1>4. UNCHANGED <<args, sid, loop, files, tmp, copy, fd, jobs, added, users>>
    BY DEF ShowSession, LoopEnds, ExecuteLocally, ExecutorError, LockSession
  <1>5. sid[r] \in Runs
    BY <1>1, <1>3 DEF Placed, Ended
  <1>6. lock' \in [Runs -> Runs \cup {None}]
    BY <1>1, <1>5 DEF ShowSession, LoopEnds, ExecuteLocally, ExecutorError, LockSession, RunTypes
  <1>7. pc' = [pc EXCEPT ![r] = to] /\ to \in Label
    BY <1>2 DEF Goto, Label, Ended
  <1>8. RunTypes' /\ LoopTypes' /\ FileTypes'
    BY <1>1, <1>4, <1>6, <1>7 DEF RunTypes, LoopTypes, FileTypes, args, loop
  <1>9. pc'[r] = to /\ \A q \in Runs : q # r => pc'[q] = pc[q]
    BY <1>1, <1>7 DEF RunTypes
  <1>10. Others(r)
    BY <1>4, <1>9 DEF Others, args, loop
  <1>11. Placed(r)' /\ Honest(r)'
    BY <1>1, <1>2, <1>3, <1>4, <1>5, <1>9 DEF Placed, Honest, loop, Ended
  <1>12. users'[r] = {r} => Sole(r)'
    BY <1>1, <1>2, <1>3, <1>4, <1>9 DEF Sole, Ended, loop
  <1>13. Owned'
    BY <1>4, <1>10, OwnedKept
  <1>. QED
    BY <1>8, <1>10, <1>11, <1>12, <1>13, SessKept

LEMMA BeginKept ==
    ASSUME SessAssumption, SessInv, NEW r \in Runs, BeginRun(r)
    PROVE  SessInv'
  <1>1. RunTypes /\ LoopTypes /\ FileTypes /\ Placed(r) /\ Honest(r) /\ Owned
    BY DEF SessInv
  <1>2. sid[r] = None /\ r \notin users[r]
    BY <1>1 DEF BeginRun, Placed, Owned, SessAssumption
  <1>3. UNCHANGED <<sid, loop, files, tmp, lock, copy, fd, jobs, added, users>>
    BY DEF BeginRun
  <1>4. PICK to \in {"ended", "find"} : pc' = [pc EXCEPT ![r] = to]
    BY DEF BeginRun, Goto
  <1>5. /\ name' \in [Runs -> {Name, None}] /\ policy' \in [Runs -> {"continue", "stop"}]
        /\ via' \in [Runs -> BOOLEAN] /\ \A q \in Runs : q # r => policy'[q] = policy[q]
    <2>1. CASE UNCHANGED args
      BY <1>1, <2>1 DEF args, RunTypes
    <2>2. CASE \E n \in {Name, None}, p \in {"continue", "stop"}, v \in BOOLEAN :
                 /\ name' = [name EXCEPT ![r] = n] /\ policy' = [policy EXCEPT ![r] = p]
                 /\ via' = [via EXCEPT ![r] = v]
      BY <1>1, <2>2 DEF RunTypes
    <2>. QED
      BY <2>1, <2>2 DEF BeginRun
  <1>6. RunTypes' /\ LoopTypes' /\ FileTypes'
    BY <1>1, <1>3, <1>4, <1>5 DEF RunTypes, LoopTypes, FileTypes, loop, Label, Ended
  <1>7. pc'[r] = to /\ \A q \in Runs : q # r => pc'[q] = pc[q]
    BY <1>1, <1>4 DEF RunTypes
  <1>8. Others(r)
    BY <1>3, <1>5, <1>7 DEF Others, loop
  <1>9. Placed(r)' /\ Honest(r)'
    BY <1>1, <1>2, <1>3, <1>4, <1>7 DEF Placed, Honest, loop, Ended
  <1>10. Owned'
    BY <1>3, <1>8, OwnedKept
  <1>11. users'[r] # {r}
    BY <1>2, <1>3
  <1>. QED
    BY <1>6, <1>8, <1>9, <1>10, <1>11, SessKept

LEMMA FindKept ==
    ASSUME SessAssumption, SessInv, NEW r \in Runs, FindSession(r)
    PROVE  SessInv'
  <1>1. RunTypes /\ LoopTypes /\ FileTypes /\ Placed(r) /\ Honest(r) /\ Owned
    BY DEF SessInv
  <1>2. sid[r] = None /\ \A i \in Runs : r \notin users[i]
    BY <1>1 DEF FindSession, Placed, Owned, SessAssumption
  <1>3. UNCHANGED <<args, loop, files, tmp, lock, copy, fd, jobs, added>>
    BY DEF FindSession
  <1>4. CASE Matches(name[r]) = {}
    <2>1. pc' = [pc EXCEPT ![r] = "create"] /\ UNCHANGED <<sid, users>>
      BY <1>4 DEF FindSession, Goto
    <2>2. RunTypes' /\ LoopTypes' /\ FileTypes'
      BY <1>1, <1>3, <2>1 DEF RunTypes, LoopTypes, FileTypes, args, loop, Label
    <2>3. pc'[r] = "create" /\ \A q \in Runs : q # r => pc'[q] = pc[q]
      BY <1>1, <2>1 DEF RunTypes
    <2>4. Others(r)
      BY <1>3, <2>1, <2>3 DEF Others, args, loop
    <2>5. Placed(r)' /\ Honest(r)'
      BY <1>1, <1>2, <1>3, <2>1, <2>3 DEF Placed, Honest, loop, Ended
    <2>6. Owned'
      BY <2>1, <2>4, OwnedKept
    <2>7. users'[r] # {r}
      BY <1>2, <2>1
    <2>. QED
      BY <2>2, <2>4, <2>5, <2>6, <2>7, SessKept
  <1>5. CASE Matches(name[r]) # {}
    <2>1. PICK i \in Matches(name[r]) :
            /\ sid' = [sid EXCEPT ![r] = i] /\ users' = [users EXCEPT ![i] = users[i] \cup {r}]
            /\ pc' = [pc EXCEPT ![r] = "show"]
      BY <1>5 DEF FindSession, Goto
    <2>2. i \in Runs /\ users[i] # {} /\ i \in users[i] /\ i # r
      BY <1>1, <1>2 DEF Matches, Owned
    <2>3. RunTypes' /\ LoopTypes' /\ FileTypes'
      BY <1>1, <1>3, <2>1, <2>2 DEF RunTypes, LoopTypes, FileTypes, args, loop, Label
    <2>4. /\ pc'[r] = "show" /\ sid'[r] = i /\ users'[i] = users[i] \cup {r}
          /\ \A q \in Runs : q # r => pc'[q] = pc[q] /\ sid'[q] = sid[q]
          /\ \A k \in Runs : k # i => users'[k] = users[k]
      BY <1>1, <2>1, <2>2 DEF RunTypes
    <2>5. Others(r)
      BY <1>3, <2>4 DEF Others, args, loop
    <2>6. Placed(r)' /\ Honest(r)'
      BY <1>1, <1>3, <2>2, <2>4 DEF Placed, Honest, loop, Ended
    <2>7. Owned'
      <3>1. ASSUME NEW k \in Runs, NEW q \in Runs PROVE q \in users'[k] <=> sid'[q] = k
        BY <1>1, <1>2, <2>2, <2>4 DEF Owned
      <3>2. ASSUME NEW k \in Runs
            PROVE  /\ users'[k] # {} => k \in users'[k]
                   /\ users'[k] = {} => ~ files'[k].whole /\ added'[k] = {}
        BY <1>1, <1>3, <2>2, <2>4 DEF Owned
      <3>. QED
        BY <3>1, <3>2 DEF Owned
    <2>8. users'[r] # {r}
      BY <1>2, <2>2, <2>4
    <2>. QED
      BY <2>3, <2>5, <2>6, <2>7, <2>8, SessKept
  <1>. QED
    BY <1>4, <1>5

LEMMA CreateKept ==
    ASSUME SessAssumption, SessInv, NEW r \in Runs, CreateSession(r)
    PROVE  SessInv'
  <1>1. RunTypes /\ LoopTypes /\ FileTypes /\ Placed(r) /\ Honest(r) /\ Owned
    BY DEF SessInv
  <1>2. sid[r] = None /\ \A i \in Runs : r \notin users[i]
    BY <1>1 DEF CreateSession, Placed, Owned, SessAssumption
  <1>3. UNCHANGED <<args, loop, tmp, lock, copy, fd, jobs, added>>
    BY DEF CreateSession
  <1>4. CASE pc' = [pc EXCEPT ![r] = "aborted"] /\ UNCHANGED <<files, sid, users>>
    <2>1. RunTypes' /\ LoopTypes' /\ FileTypes'
      BY <1>1, <1>3, <1>4 DEF RunTypes, LoopTypes, FileTypes, args, loop, Label, Ended
    <2>2. pc'[r] = "aborted" /\ \A q \in Runs : q # r => pc'[q] = pc[q]
      BY <1>1, <1>4 DEF RunTypes
    <2>3. Others(r)
      BY <1>3, <1>4, <2>2 DEF Others, args, loop
    <2>4. Placed(r)' /\ Honest(r)'
      BY <1>1, <1>3, <1>4, <2>2 DEF Placed, Honest, loop, Ended
    <2>5. Owned'
      BY <1>4, <2>3, OwnedKept
    <2>6. users'[r] # {r}
      BY <1>2, <1>4
    <2>. QED
      BY <2>1, <2>3, <2>4, <2>5, <2>6, SessKept
  <1> DEFINE made == [whole |-> TRUE, name |-> name[r], jobs |-> {}, status |-> "active", inode |-> None]
  <1>5. CASE /\ files' = [files EXCEPT ![r] = made]
             /\ sid' = [sid EXCEPT ![r] = r] /\ users' = [users EXCEPT ![r] = users[r] \cup {r}]
             /\ pc' = [pc EXCEPT ![r] = "show"]
    <2>1. made \in SessionFile /\ made.whole /\ made.jobs = {} /\ made.status = "active"
      BY <1>1 DEF SessionFile, RunTypes
    <2> HIDE DEF made
    <2>2. users[r] = {} /\ added[r] = {}
      BY <1>1, <1>2 DEF Owned
    <2>3. RunTypes' /\ LoopTypes' /\ FileTypes'
      BY <1>1, <1>3, <1>5, <2>1 DEF RunTypes, LoopTypes, FileTypes, args, loop, Label
    <2>4. /\ pc'[r] = "show" /\ sid'[r] = r /\ users'[r] = {r} /\ files'[r] = made
          /\ \A q \in Runs : q # r => /\ pc'[q] = pc[q] /\ sid'[q] = sid[q]
                                      /\ users'[q] = users[q] /\ files'[q] = files[q]
      BY <1>1, <1>5, <2>2 DEF RunTypes, FileTypes
    <2>5. Others(r)
      BY <1>3, <2>4 DEF Others, args, loop
    <2>6. Placed(r)' /\ Honest(r)'
      BY <1>1, <1>3, <2>4 DEF Placed, Honest, loop, Ended
    <2>7. Owned'
      <3>1. ASSUME NEW k \in Runs, NEW q \in Runs PROVE q \in users'[k] <=> sid'[q] = k
        BY <1>1, <1>2, <2>2, <2>4 DEF Owned
      <3>2. ASSUME NEW k \in Runs
            PROVE  /\ users'[k] # {} => k \in users'[k]
                   /\ users'[k] = {} => ~ files'[k].whole /\ added'[k] = {}
        BY <1>1, <1>3, <2>4 DEF Owned
      <3>. QED
        BY <3>1, <3>2 DEF Owned
    <2>8. Sole(r)'
      BY <1>3, <2>1, <2>2, <2>4 DEF Sole
    <2>. QED
      BY <2>3, <2>5, <2>6, <2>7, <2>8, SessKept
  <1>. QED
    BY <1>4, <1>5 DEF CreateSession, Goto

LEMMA TimedOutKept ==
    ASSUME SessAssumption, SessInv, NEW r \in Runs, OutOfTime(r)
    PROVE  SessInv'
  <1>1. RunTypes /\ LoopTypes /\ FileTypes /\ Placed(r) /\ Honest(r) /\ Owned /\ (users[r] = {r} => Sole(r))
    BY DEF SessInv
  <1>2. /\ pc' = [pc EXCEPT ![r] = "mark"] /\ failed' = [failed EXCEPT ![r] = TRUE]
        /\ terminated' = [terminated EXCEPT ![r] = TRUE] /\ pc[r] = "loop"
        /\ UNCHANGED <<args, sid, step, outcomes, files, tmp, lock, copy, fd, jobs, added, users>>
    BY DEF OutOfTime, Goto, InLoop
  <1>3. RunTypes' /\ LoopTypes' /\ FileTypes'
    BY <1>1, <1>2 DEF RunTypes, LoopTypes, FileTypes, args, Label
  <1>4. /\ pc'[r] = "mark" /\ failed'[r] /\ terminated'[r]
        /\ \A q \in Runs : q # r =>
             pc'[q] = pc[q] /\ failed'[q] = failed[q] /\ terminated'[q] = terminated[q]
    BY <1>1, <1>2 DEF RunTypes, LoopTypes
  <1>5. Others(r)
    BY <1>2, <1>4 DEF Others, args
  <1>6. Placed(r)' /\ Honest(r)'
    BY <1>1, <1>2, <1>4 DEF Placed, Honest, Ended
  <1>7. users'[r] = {r} => Sole(r)'
    BY <1>1, <1>2, <1>4 DEF Sole, Ended
  <1>8. Owned'
    BY <1>2, <1>5, OwnedKept
  <1>. QED
    BY <1>3, <1>5, <1>6, <1>7, <1>8, SessKept

\* The job of a step that is not behind the run, or one that runs, gets its outcome.
LEMMA JobKept ==
    ASSUME SessAssumption, SessInv, NEW r \in Runs,
           \/ CapabilityOutput(r) \/ DispatchStep(r)
           \/ \E s \in 1..Steps[r] : DaemonFinishes(<<r, s>>)
    PROVE  SessInv'
  <1>1. RunTypes /\ LoopTypes /\ FileTypes /\ Placed(r) /\ Honest(r) /\ Owned /\ (users[r] = {r} => Sole(r))
    BY DEF SessInv
  <1>2. UNCHANGED <<args, sid, loop, files, tmp, lock, copy, fd, added, users>>
    BY DEF CapabilityOutput, DispatchStep, DaemonFinishes
  <1>3. step[r] \in Nat /\ step[r] > 0 /\ Steps[r] \in Nat
    BY <1>1 DEF LoopTypes, SessAssumption
  <1>4. PICK s \in 1..Steps[r] :
          /\ \E to \in {"running", "completed", "failed"} : jobs' = [jobs EXCEPT ![<<r, s>>] = to]
          /\ \/ /\ s = step[r] /\ pc[r] \in {"loop", "exec"} /\ pc' = [pc EXCEPT ![r] = "add"]
             \/ pc' = pc /\ jobs[<<r, s>>] = "running"
    <2>1. CASE CapabilityOutput(r) \/ DispatchStep(r)
      <3>1. step[r] <= Steps[r]
        BY <1>1, <2>1 DEF CapabilityOutput, DispatchStep, InLoop, Placed
      <3>2. step[r] \in 1..Steps[r]
        BY <1>3, <3>1
      <3>. QED
        BY <2>1, <3>2 DEF CapabilityOutput, DispatchStep, InLoop, Goto
    <2>2. CASE \E s \in 1..Steps[r] : DaemonFinishes(<<r, s>>)
      BY <2>2 DEF DaemonFinishes
    <2>. QED
      BY <2>1, <2>2
  <1>5. /\ jobs' \in [Job -> {"none", "running", "completed", "failed"}]
        /\ \A j \in Job : j # <<r, s>> => jobs'[j] = jobs[j]
    BY <1>1, <1>4 DEF LoopTypes
  <1>6. /\ pc' \in [Runs -> Label] /\ \A q \in Runs : q # r => pc'[q] = pc[q]
        /\ \/ s = step[r] /\ pc[r] \in {"loop", "exec"} /\ pc'[r] = "add"
           \/ pc'[r] = pc[r] /\ jobs[<<r, s>>] = "running"
    BY <1>1, <1>4 DEF RunTypes, Label
  <1>7. RunTypes' /\ LoopTypes' /\ FileTypes'
    BY <1>1, <1>2, <1>5, <1>6 DEF RunTypes, LoopTypes, FileTypes, args, loop
  <1>8. Others(r)
    <2>1. ASSUME NEW q \in Runs, q # r, NEW t \in 1..Steps[q] PROVE jobs'[<<q, t>>] = jobs[<<q, t>>]
      <3>1. <<q, t>> \in Job /\ <<q, t>> # <<r, s>>
        BY <2>1, JobPairs
      <3>. QED
        BY <1>5, <3>1
    <2>. QED
      BY <1>2, <1>6, <2>1 DEF Others, args, loop
  <1>9. Placed(r)'
    BY <1>1, <1>2, <1>3, <1>6 DEF Placed, Ended, loop, SessAssumption
  <1>10. Honest(r)'
    <2>1. ASSUME NEW t \in 1..Steps[r], outcomes[<<r, t>>] = "ok"
          PROVE  t < step[r] /\ jobs'[<<r, t>>] = "completed"
      <3>1. t < step[r] /\ jobs[<<r, t>>] = "completed"
        BY <1>1, <2>1 DEF Honest
      <3>2. t # s
        BY <1>3, <1>6, <3>1
      <3>3. <<r, t>> \in Job /\ <<r, t>> # <<r, s>>
        BY <3>2, JobPairs
      <3>. QED
        BY <1>5, <3>1, <3>3
    <2>. QED
      BY <1>1, <1>2, <2>1 DEF Honest, loop
  <1>11. users'[r] = {r} => Sole(r)'
    BY <1>1, <1>2, <1>6 DEF Sole, Ended, loop, Tells, FinalStatus, args
  <1>12. Owned'
    BY <1>2, <1>8, OwnedKept
  <1>. QED
    BY <1>7, <1>8, <1>9, <1>10, <1>11, <1>12, SessKept

LEMMA ReadKept ==
    ASSUME SessAssumption, SessInv, NEW r \in Runs, ReadSession(r)
    PROVE  SessInv'
  <1>1. RunTypes /\ LoopTypes /\ FileTypes /\ Placed(r) /\ Honest(r) /\ Owned /\ (users[r] = {r} => Sole(r))
    BY DEF SessInv
  <1>2. pc[r] = "read" /\ UNCHANGED <<args, sid, files, tmp, fd, jobs, added, users>>
    BY DEF ReadSession
  <1>3. sid[r] \in Runs /\ step[r] <= Steps[r]
    BY <1>1, <1>2 DEF Placed, Ended
  <1>4. CASE /\ copy' = [copy EXCEPT ![r] = files[sid[r]]]
             /\ pc' = [pc EXCEPT ![r] = "save"] /\ UNCHANGED <<loop, lock>>
    <2>1. /\ pc'[r] = "save" /\ copy'[r] = files[sid[r]]
          /\ \A q \in Runs : q # r => pc'[q] = pc[q] /\ copy'[q] = copy[q]
      BY <1>1, <1>4 DEF RunTypes, FileTypes
    <2>2. RunTypes' /\ LoopTypes' /\ FileTypes'
      BY <1>1, <1>2, <1>3, <1>4 DEF RunTypes, LoopTypes, FileTypes, args, loop, Label
    <2>3. Others(r)
      BY <1>2, <1>4, <2>1 DEF Others, args, loop
    <2>4. Placed(r)' /\ Honest(r)'
      BY <1>1, <1>2, <1>3, <1>4, <2>1 DEF Placed, Honest, loop, Ended
    <2>5. users'[r] = {r} => Sole(r)'
      <3>1. ASSUME users[r] = {r} PROVE sid[r] = r
        BY <1>1, <3>1 DEF Owned
      <3>. QED
        BY <1>1, <1>2, <2>1, <3>1 DEF Sole, Ended
    <2>6. Owned'
      BY <1>2, <2>3, OwnedKept
    <2>. QED
      BY <2>2, <2>3, <2>4, <2>5, <2>6, SessKept
  <1>5. CASE lock' = [lock EXCEPT ![sid[r]] = None] /\ Added(r) /\ copy' = copy
    <2>1. /\ LoopTypes' /\ Placed(r)' /\ Honest(r)'
          /\ pc' \in [Runs -> Label] /\ pc'[r] \in {"poll", "loop", "mark"}
          /\ \A q \in Runs : q # r =>
               /\ pc'[q] = pc[q] /\ step'[q] = step[q]
               /\ failed'[q] = failed[q] /\ terminated'[q] = terminated[q]
               /\ \A s \in 1..Steps[q] : outcomes'[<<q, s>>] = outcomes[<<q, s>>]
      BY <1>2, <1>5, AddedKept
    <2>2. RunTypes' /\ FileTypes'
      BY <1>1, <1>2, <1>3, <1>5, <2>1 DEF RunTypes, FileTypes, args
    <2>3. Others(r)
      BY <1>2, <1>5, <2>1 DEF Others, args
    <2>4. users'[r] = {r} => Sole(r)'
      BY <1>1, <1>2, <1>5, <2>1 DEF Sole, Ended
    <2>5. Owned'
      BY <1>2, <2>3, OwnedKept
    <2>. QED
      BY <2>1, <2>2, <2>3, <2>4, <2>5, SessKept
  <1>. QED
    BY <1>4, <1>5 DEF ReadSession, Goto

LEMMA SaveKept ==
    ASSUME SessAssumption, SessInv, NEW r \in Runs, SaveSession(r)
    PROVE  SessInv'
  <1>1. RunTypes /\ LoopTypes /\ FileTypes /\ Placed(r) /\ Honest(r) /\ Owned /\ (users[r] = {r} => Sole(r))
    BY DEF SessInv
  <1> DEFINE j == <<r, step[r]>>
             i == sid[r]
  <1>2. /\ pc[r] = "save" /\ UNCHANGED <<args, sid, tmp, fd, jobs, users>> /\ Added(r)
        /\ lock' = [lock EXCEPT ![i] = None] /\ copy' = [copy EXCEPT ![r] = Absent]
    BY DEF SaveSession
  <1>3. i \in Runs /\ step[r] <= Steps[r]
    BY <1>1, <1>2 DEF Placed, Ended
  <1>4. j \in Job
    <2>1. step[r] \in 1..Steps[r]
      BY <1>1, <1>3 DEF LoopTypes, SessAssumption
    <2>. QED
      BY <2>1, JobPairs
  <1>5. /\ LoopTypes' /\ Placed(r)' /\ Honest(r)'
        /\ pc' \in [Runs -> Label] /\ pc'[r] \in {"poll", "loop", "mark"}
        /\ \A q \in Runs : q # r =>
             /\ pc'[q] = pc[q] /\ step'[q] = step[q]
             /\ failed'[q] = failed[q] /\ terminated'[q] = terminated[q]
             /\ \A s \in 1..Steps[q] : outcomes'[<<q, s>>] = outcomes[<<q, s>>]
    BY <1>2, AddedKept
  <1>6. RunTypes' /\ copy' \in [Runs -> SessionFile] /\ (\A q \in Runs : q # r => copy'[q] = copy[q])
    BY <1>1, <1>2, <1>3, <1>5, FileValues DEF RunTypes, FileTypes, args
  <1>7. CASE UNCHANGED <<files, added>>
    <2>1. FileTypes'
      BY <1>1, <1>2, <1>6, <1>7 DEF FileTypes
    <2>2. Others(r)
      BY <1>2, <1>5, <1>6, <1>7 DEF Others, args
    <2>3. users'[r] = {r} => Sole(r)'
      BY <1>1, <1>2, <1>5, <1>7 DEF Sole, Ended
    <2>4. Owned'
      BY <1>2, <2>2, OwnedKept
    <2>. QED
      BY <1>5, <1>6, <2>1, <2>2, <2>3, <2>4, SessKept
  <1>8. CASE /\ files' = [files EXCEPT ![i] = Extended(r)]
             /\ added' = [added EXCEPT ![i] = added[i] \cup {j}]
    <2>1. /\ copy[r] \in SessionFile /\ copy[r].jobs \in SUBSET Job
          /\ copy[r].jobs \cup {j} \in SUBSET Job
      <3>1. copy[r] \in SessionFile
        BY <1>1 DEF FileTypes
      <3>2. copy[r].jobs \in SUBSET Job
        BY <3>1 DEF SessionFile
      <3>. QED
        BY <1>4, <3>1, <3>2
    <2>2. Extended(r) = [copy[r] EXCEPT !.jobs = copy[r].jobs \cup {j}, !.inode = None]
      BY DEF Extended
    <2>3. /\ Extended(r) \in SessionFile /\ Extended(r).whole = copy[r].whole
          /\ Extended(r).jobs = copy[r].jobs \cup {j} /\ Extended(r).status = copy[r].status
      BY <2>1, <2>2 DEF SessionFile
    <2>4. /\ files'[i] = Extended(r) /\ added'[i] = added[i] \cup {j}
          /\ \A k \in Runs : k # i => files'[k] = files[k] /\ added'[k] = added[k]
      BY <1>1, <1>3, <1>8 DEF FileTypes
    <2>5. FileTypes'
      <3>1. files' \in [Runs -> SessionFile]
        BY <1>1, <1>8, <2>3 DEF FileTypes
      <3>2. added' \in [Runs -> SUBSET Job]
        BY <1>1, <1>4, <1>8 DEF FileTypes
      <3>. QED
        BY <1>1, <1>2, <1>6, <3>1, <3>2 DEF FileTypes
    <2>6. Others(r)
      BY <1>2, <1>5, <1>6, <2>4 DEF Others, args
    <2>7. users'[r] = {r} => Sole(r)'
      <3>1. SUFFICES ASSUME users[r] = {r} PROVE Sole(r)'
        BY <1>2
      <3>2. sid[r] = r
        BY <1>1, <3>1 DEF Owned
      <3>3. /\ files[r].whole /\ files[r].jobs = added[r] /\ copy[r] = files[r]
            /\ files[r].status = "active"
        BY <1>1, <1>2, <3>1 DEF Sole, Ended
      <3>4. /\ files'[r].whole /\ files'[r].jobs = added'[r] /\ files'[r].status = "active"
        <4>1. files'[r] = Extended(r) /\ added'[r] = added[r] \cup {j}
          BY <2>4, <3>2
        <4>2. Extended(r).whole /\ Extended(r).jobs = added[r] \cup {j} /\ Extended(r).status = "active"
          <5> HIDE DEF j
          <5>. QED
            BY <2>3, <3>3
        <4>. QED
          BY <4>1, <4>2
      <3>. QED
        BY <1>5, <3>4 DEF Sole
    <2>8. Owned'
      BY <1>2, <2>6, OwnedKept
    <2>. QED
      BY <1>5, <1>6, <2>5, <2>6, <2>7, <2>8, SessKept
  <1>. QED
    BY <1>7, <1>8 DEF SaveSession

LEMMA MarkReadKept ==
    ASSUME SessAssumption, SessInv, NEW r \in Runs, ReadForMark(r)
    PROVE  SessInv'
  <1>1. RunTypes /\ LoopTypes /\ FileTypes /\ Placed(r) /\ Honest(r) /\ Owned /\ (users[r] = {r} => Sole(r))
    BY DEF SessInv
  <1>2. pc[r] = "mark" /\ UNCHANGED <<args, sid, loop, files, tmp, lock, fd, jobs, added, users>>
    BY DEF ReadForMark
  <1>3. sid[r] \in Runs /\ (terminated[r] \/ step[r] > Steps[r])
    BY <1>1, <1>2 DEF Placed, Ended
  <1>4. CASE /\ copy' = [copy EXCEPT ![r] = Marked(r)] /\ pc' = [pc EXCEPT ![r] = "truncate"]
    <2>1. files[sid[r]] \in SessionFile /\ FinalStatus(r) \in {"terminated", "completed"}
      BY <1>1, <1>3 DEF FileTypes, FinalStatus
    <2>2. Marked(r) = [files[sid[r]] EXCEPT !.status = FinalStatus(r), !.inode = None]
      BY DEF Marked
    <2>3. /\ Marked(r) \in SessionFile /\ Marked(r).whole = files[sid[r]].whole
          /\ Marked(r).jobs = files[sid[r]].jobs /\ Marked(r).status = FinalStatus(r)
      BY <2>1, <2>2 DEF SessionFile
    <2>4. /\ pc'[r] = "truncate" /\ copy'[r] = Marked(r)
          /\ \A q \in Runs : q # r => pc'[q] = pc[q] /\ copy'[q] = copy[q]
      BY <1>1, <1>4 DEF RunTypes, FileTypes
    <2>5. RunTypes' /\ LoopTypes' /\ FileTypes'
      BY <1>1, <1>2, <1>4, <2>3 DEF RunTypes, LoopTypes, FileTypes, args, loop, Label
    <2>6. Others(r)
      BY <1>2, <2>4 DEF Others, args, loop
    <2>7. Placed(r)' /\ Honest(r)'
      BY <1>1, <1>2, <1>3, <2>4 DEF Placed, Honest, loop, Ended
    <2>8. users'[r] = {r} => Sole(r)'
      <3>1. SUFFICES ASSUME users[r] = {r} PROVE Sole(r)'
        BY <1>2
      <3>2. sid[r] = r
        BY <1>1, <3>1 DEF Owned
      <3>3. files[r].whole /\ files[r].jobs = added[r] /\ files[r].status = "active"
        BY <1>1, <1>2, <3>1 DEF Sole, Ended
      <3>4. FinalStatus(r)' = FinalStatus(r)
        BY <1>2 DEF FinalStatus, loop, args
      <3>5. Tells(copy[r], r)'
        BY <1>2, <2>3, <2>4, <3>2, <3>3, <3>4 DEF Tells
      <3>. QED
        BY <1>2, <2>4, <3>3, <3>5 DEF Sole
    <2>9. Owned'
      BY <1>2, <2>6, OwnedKept
    <2>. QED
      BY <2>5, <2>6, <2>7, <2>8, <2>9, SessKept
  <1>5. CASE ~ files[sid[r]].whole /\ pc' = [pc EXCEPT ![r] = "ended"] /\ UNCHANGED copy
    <2>1. pc'[r] = "ended" /\ \A q \in Runs : q # r => pc'[q] = pc[q]
      BY <1>1, <1>5 DEF RunTypes
    <2>2. RunTypes' /\ LoopTypes' /\ FileTypes'
      BY <1>1, <1>2, <1>5 DEF RunTypes, LoopTypes, FileTypes, args, loop, Label, Ended
    <2>3. Others(r)
      BY <1>2, <1>5, <2>1 DEF Others, args, loop
    <2>4. Placed(r)' /\ Honest(r)'
      BY <1>1, <1>2, <2>1 DEF Placed, Honest, loop, Ended
    <2>5. users'[r] # {r}
      <3>1. users[r] = {r} => sid[r] = r /\ files[r].whole
        BY <1>1 DEF Owned, Sole
      <3>. QED
        BY <1>2, <1>5, <3>1
    <2>6. Owned'
      BY <1>2, <2>3, OwnedKept
    <2>. QED
      BY <2>2, <2>3, <2>4, <2>5, <2>6, SessKept
  <1>. QED
    BY <1>4, <1>5 DEF ReadForMark, Goto

LEMMA TruncateKept ==
    ASSUME SessAssumption, SessInv, NEW r \in Runs, TruncateTmp(r)
    PROVE  SessInv'
  <1>1. RunTypes /\ LoopTypes /\ FileTypes /\ Placed(r) /\ Honest(r) /\ Owned /\ (users[r] = {r} => Sole(r))
    BY DEF SessInv
  <1>2. /\ pc[r] = "truncate" /\ pc' = [pc EXCEPT ![r] = "fill"]
        /\ UNCHANGED <<args, sid, loop, files, lock, copy, jobs, added, users>>
    BY DEF TruncateTmp, Goto
  <1>3. sid[r] \in Runs /\ (terminated[r] \/ step[r] > Steps[r])
    BY <1>1, <1>2 DEF Placed, Ended
  <1>4. PICK i \in Runs \cup {None} : fd' = [fd EXCEPT ![r] = i] /\ tmp' = [tmp EXCEPT ![sid[r]] = Torn(i)]
    <2>1. tmp[sid[r]].inode \in Runs \cup {None}
      <3>1. tmp[sid[r]] \in SessionFile
        BY <1>1, <1>3 DEF FileTypes
      <3>. QED
        BY <3>1 DEF SessionFile
    <2>2. CASE tmp[sid[r]].status = "absent"
      BY <2>2 DEF TruncateTmp
    <2>3. CASE tmp[sid[r]].status # "absent"
      BY <2>1, <2>3 DEF TruncateTmp
    <2>. QED
      BY <2>2, <2>3
  <1>5. /\ pc'[r] = "fill" /\ fd'[r] = i /\ tmp'[sid[r]] = Torn(i)
        /\ \A q \in Runs : q # r => pc'[q] = pc[q] /\ fd'[q] = fd[q]
        /\ \A k \in Runs : k # sid[r] => tmp'[k] = tmp[k]
    BY <1>1, <1>2, <1>3, <1>4 DEF RunTypes, FileTypes
  <1>6. RunTypes' /\ LoopTypes' /\ FileTypes'
    BY <1>1, <1>2, <1>4, FileValues DEF RunTypes, LoopTypes, FileTypes, args, loop, Label
  <1>7. Others(r)
    BY <1>2, <1>5 DEF Others, args, loop
  <1>8. Placed(r)' /\ Honest(r)'
    BY <1>1, <1>2, <1>3, <1>5 DEF Placed, Honest, loop, Ended
  <1>9. users'[r] = {r} => Sole(r)'
    <2>1. SUFFICES ASSUME users[r] = {r} PROVE Sole(r)'
      BY <1>2
    <2>2. sid[r] = r
      BY <1>1, <2>1 DEF Owned
    <2>3. tmp'[r].inode = fd'[r] /\ ~ tmp'[r].whole
      BY <1>5, <2>2, FileValues
    <2>4. FinalStatus(r)' = FinalStatus(r)
      BY <1>2 DEF FinalStatus, loop, args
    <2>. QED
      BY <1>1, <1>2, <1>5, <2>1, <2>3, <2>4 DEF Sole, Tells, Ended
  <1>10. Owned'
    BY <1>2, <1>7, OwnedKept
  <1>. QED
    BY <1>6, <1>7, <1>8, <1>9, <1>10, SessKept

LEMMA FillKept ==
    ASSUME SessAssumption, SessInv, NEW r \in Runs, FillTmp(r)
    PROVE  SessInv'
  <1>1. RunTypes /\ LoopTypes /\ FileTypes /\ Placed(r) /\ Honest(r) /\ Owned /\ (users[r] = {r} => Sole(r))
    BY DEF SessInv
  <1>2. /\ pc[r] = "fill" /\ pc' = [pc EXCEPT ![r] = "rename"]
        /\ UNCHANGED <<args, sid, loop, lock, copy, fd, jobs, added, users>>
    BY DEF FillTmp, Goto
  <1>3. sid[r] \in Runs /\ (terminated[r] \/ step[r] > Steps[r])
    BY <1>1, <1>2 DEF Placed, Ended
  <1> DEFINE text == [copy[r] EXCEPT !.inode = fd[r]]
             over == Torn(fd[r])
  <1>4. copy[r] \in SessionFile /\ fd[r] \in Runs \cup {None}
    BY <1>1 DEF FileTypes, RunTypes
  <1>5. /\ text \in SessionFile /\ over \in SessionFile
        /\ text.whole = copy[r].whole /\ text.jobs = copy[r].jobs /\ text.status = copy[r].status
    BY <1>4, FileValues DEF SessionFile
  <1>6. \E f \in {text, over} :
          \/ /\ tmp[sid[r]].inode = fd[r] /\ (~ tmp[sid[r]].whole => f = text)
             /\ tmp' = [tmp EXCEPT ![sid[r]] = f] /\ files' = files
          \/ tmp[sid[r]].inode # fd[r] /\ tmp' = tmp /\ files' = [files EXCEPT ![sid[r]] = f]
          \/ tmp[sid[r]].inode # fd[r] /\ UNCHANGED <<tmp, files>>
    <2>1. CASE tmp[sid[r]].inode = fd[r]
      BY <2>1 DEF FillTmp
    <2>2. CASE tmp[sid[r]].inode # fd[r]
      BY <2>2 DEF FillTmp
    <2>. QED
      BY <2>1, <2>2
  <1> HIDE DEF text, over
  <1>7. /\ files' \in [Runs -> SessionFile] /\ tmp' \in [Runs -> SessionFile]
        /\ \A k \in Runs : k # sid[r] => tmp'[k] = tmp[k] /\ files'[k] = files[k]
        /\ tmp[sid[r]].inode = fd[r] /\ ~ tmp[sid[r]].whole =>
             tmp'[sid[r]] = text /\ files' = files
    BY <1>1, <1>3, <1>5, <1>6 DEF FileTypes
  <1>8. pc'[r] = "rename" /\ \A q \in Runs : q # r => pc'[q] = pc[q]
    BY <1>1, <1>2 DEF RunTypes
  <1>9. RunTypes' /\ LoopTypes' /\ FileTypes'
    BY <1>1, <1>2, <1>7 DEF RunTypes, LoopTypes, FileTypes, args, loop, Label
  <1>10. Others(r)
    BY <1>2, <1>7, <1>8 DEF Others, args, loop
  <1>11. Placed(r)' /\ Honest(r)'
    BY <1>1, <1>2, <1>3, <1>8 DEF Placed, Honest, loop, Ended
  <1>12. users'[r] = {r} => Sole(r)'
    <2>1. SUFFICES ASSUME users[r] = {r} PROVE Sole(r)'
      BY <1>2
    <2>2. sid[r] = r
      BY <1>1, <2>1 DEF Owned
    <2>3. /\ files[r].whole /\ files[r].jobs = added[r] /\ files[r].status = "active"
          /\ Tells(copy[r], r) /\ tmp[r].inode = fd[r] /\ ~ tmp[r].whole
      BY <1>1, <1>2, <2>1 DEF Sole, Ended
    <2>4. FinalStatus(r)' = FinalStatus(r)
      BY <1>2 DEF FinalStatus, loop, args
    <2>5. tmp'[r] = text /\ files' = files
      BY <1>7, <2>2, <2>3
    <2>6. Tells(tmp[r], r)'
      BY <1>2, <1>5, <2>3, <2>4, <2>5 DEF Tells
    <2>. QED
      BY <1>2, <1>8, <2>3, <2>5, <2>6 DEF Sole
  <1>13. Owned'
    BY <1>2, <1>10, OwnedKept
  <1>. QED
    BY <1>9, <1>10, <1>11, <1>12, <1>13, SessKept

LEMMA RenameKept ==
    ASSUME SessAssumption, SessInv, NEW r \in Runs, RenameTmp(r)
    PROVE  SessInv'
  <1>1. RunTypes /\ LoopTypes /\ FileTypes /\ Placed(r) /\ Honest(r) /\ Owned /\ (users[r] = {r} => Sole(r))
    BY DEF SessInv
  <1>2. /\ pc[r] = "rename" /\ pc' = [pc EXCEPT ![r] = "ended"]
        /\ copy' = [copy EXCEPT ![r] = Absent] /\ fd' = [fd EXCEPT ![r] = None]
        /\ UNCHANGED <<args, sid, loop, lock, jobs, added, users>>
    BY DEF RenameTmp, Goto
  <1>3. sid[r] \in Runs /\ (terminated[r] \/ step[r] > Steps[r])
    BY <1>1, <1>2 DEF Placed, Ended
  <1>4. \/ tmp[sid[r]].status = "absent" /\ UNCHANGED <<files, tmp>>
        \/ /\ tmp[sid[r]].status # "absent" /\ files' = [files EXCEPT ![sid[r]] = tmp[sid[r]]]
           /\ tmp' = [tmp EXCEPT ![sid[r]] = Absent]
    BY DEF RenameTmp
  <1>5. /\ files' \in [Runs -> SessionFile] /\ tmp' \in [Runs -> SessionFile]
        /\ \A k \in Runs : k # sid[r] => tmp'[k] = tmp[k] /\ files'[k] = files[k]
        /\ tmp[sid[r]].status # "absent" => files'[sid[r]] = tmp[sid[r]]
    BY <1>1, <1>3, <1>4, FileValues DEF FileTypes
  <1>6. pc'[r] = "ended" /\ \A q \in Runs : q # r => pc'[q] = pc[q] /\ copy'[q] = copy[q] /\ fd'[q] = fd[q]
    BY <1>1, <1>2 DEF RunTypes, FileTypes
  <1>7. RunTypes' /\ LoopTypes' /\ FileTypes'
    BY <1>1, <1>2, <1>5, FileValues DEF RunTypes, LoopTypes, FileTypes, args, loop, Label, Ended
  <1>8. Others(r)
    BY <1>2, <1>5, <1>6 DEF Others, args, loop
  <1>9. Placed(r)' /\ Honest(r)'
    BY <1>1, <1>2, <1>6 DEF Placed, Honest, loop, Ended
  <1>10. users'[r] = {r} => Sole(r)'
    <2>1. SUFFICES ASSUME users[r] = {r} PROVE Sole(r)'
      BY <1>2
    <2>2. sid[r] = r
      BY <1>1, <2>1 DEF Owned
    <2>3. tmp[r].whole /\ tmp[r].jobs = added[r] /\ tmp[r].status = FinalStatus(r)
      BY <1>1, <1>2, <2>1 DEF Sole, Tells
    <2>4. FinalStatus(r)' = FinalStatus(r) /\ FinalStatus(r) # "absent"
      BY <1>2 DEF FinalStatus, loop, args
    <2>5. files'[r] = tmp[r]
      BY <1>5, <2>2, <2>3, <2>4
    <2>. QED
      BY <1>2, <1>3, <1>6, <2>3, <2>4, <2>5 DEF Sole, Ended, loop
  <1>11. Owned'
    BY <1>2, <1>8, OwnedKept
  <1>. QED
    BY <1>7, <1>8, <1>9, <1>10, <1>11, SessKept

LEMMA KilledKept ==
    ASSUME SessAssumption, SessInv, NEW r \in Runs, Killed(r)
    PROVE  SessInv'
  <1>1. RunTypes /\ LoopTypes /\ FileTypes /\ Placed(r) /\ Honest(r) /\ Owned /\ (users[r] = {r} => Sole(r))
    BY DEF SessInv
  <1>2. /\ pc[r] \notin Ended /\ pc' = [pc EXCEPT ![r] = "dead"]
        /\ copy' = [copy EXCEPT ![r] = Absent] /\ fd' = [fd EXCEPT ![r] = None]
        /\ lock' = [i \in Runs |-> IF lock[i] = r THEN None ELSE lock[i]]
        /\ UNCHANGED <<args, sid, loop, files, tmp, jobs, added, users>>
    BY DEF Killed, Goto
  <1>3. pc'[r] = "dead" /\ \A q \in Runs : q # r => pc'[q] = pc[q] /\ copy'[q] = copy[q] /\ fd'[q] = fd[q]
    BY <1>1, <1>2 DEF RunTypes, FileTypes
  <1>4. RunTypes' /\ LoopTypes' /\ FileTypes'
    BY <1>1, <1>2, FileValues DEF RunTypes, LoopTypes, FileTypes, args, loop, Label, Ended
  <1>5. Others(r)
    BY <1>2, <1>3 DEF Others, args, loop
  <1>6. Placed(r)' /\ Honest(r)'
    BY <1>1, <1>2, <1>3 DEF Placed, Honest, loop, Ended
  <1>7. users'[r] = {r} => Sole(r)'
    BY <1>1, <1>2, <1>3 DEF Sole, Ended
  <1>8. Owned'
    BY <1>2, <1>5, OwnedKept
  <1>. QED
    BY <1>4, <1>5, <1>6, <1>7, <1>8, SessKept

LEMMA SessInvStep == SessAssumption /\ SessInv /\ [SessNext]_sessVars => SessInv'
  <1> SUFFICES ASSUME SessAssumption, SessInv, [SessNext]_sessVars
               PROVE  SessInv'
    OBVIOUS
  <1>1. CASE UNCHANGED sessVars
    <2>1. RunTypes' /\ LoopTypes' /\ FileTypes' /\ Owned'
      BY <1>1 DEF sessVars, args, loop, SessInv, RunTypes, LoopTypes, FileTypes, Owned
    <2>2. \A r \in Runs : Placed(r)' /\ Honest(r)'
      BY <1>1 DEF sessVars, args, loop, SessInv, Placed, Honest
    <2>3. \A r \in Runs : (users[r] = {r})' => Sole(r)'
      BY <1>1 DEF sessVars, args, loop, SessInv, Sole, Tells, FinalStatus
    <2>. QED
      BY <2>1, <2>2, <2>3 DEF SessInv
  <1>2. ASSUME NEW j \in Job, DaemonFinishes(j) PROVE SessInv'
    <2>1. j[1] \in Runs /\ j[2] \in 1..Steps[j[1]] /\ j = <<j[1], j[2]>>
      BY JobIsPair
    <2>. QED
      BY <1>2, <2>1, JobKept
  <1>3. ASSUME NEW r \in Runs,
               BeginRun(r) \/ FindSession(r) \/ CreateSession(r) \/ ShowSession(r) \/ LoopEnds(r)
               \/ OutOfTime(r) \/ BlockStep(r) \/ ExecuteLocally(r) \/ ExecutorError(r)
               \/ CapabilityError(r) \/ CapabilityOutput(r) \/ DispatchStep(r) \/ PollTerminal(r)
               \/ PollGivesUp(r) \/ LockSession(r)
        PROVE  SessInv'
    BY <1>3, BeginKept, FindKept, CreateKept, WaitsKept, TimedOutKept, SteppedKept, JobKept
  <1>4. ASSUME NEW r \in Runs,
               ReadSession(r) \/ SaveSession(r) \/ ReadForMark(r) \/ TruncateTmp(r) \/ FillTmp(r)
               \/ RenameTmp(r) \/ Killed(r)
        PROVE  SessInv'
    BY <1>4, ReadKept, SaveKept, MarkReadKept, TruncateKept, FillKept, RenameKept, KilledKept
  <1>. QED
    BY <1>1, <1>2, <1>3, <1>4 DEF SessNext

LEMMA InvSessions == SessAssumption /\ SessInv => SessTypeOK /\ LoneSessionTrue /\ StepsAreReal
  <1> SUFFICES ASSUME SessAssumption, SessInv
               PROVE  SessTypeOK /\ LoneSessionTrue /\ StepsAreReal
    OBVIOUS
  <1>1. RunTypes /\ LoopTypes /\ FileTypes /\ Owned
    BY DEF SessInv
  <1>2. ASSUME NEW i \in Runs, NEW r \in Runs, users[i] = {r}
        PROVE  i = r /\ Sole(r) /\ Honest(r)
    BY <1>1, <1>2 DEF Owned, SessInv
  <1>3. SessTypeOK
    <2>1. \A r \in Runs : step[r] \in 1..(Steps[r] + 1)
      BY <1>1 DEF LoopTypes, SessAssumption
    <2>2. \A r \in Runs : files[r].jobs \subseteq Job
      <3>1. \A r \in Runs : files[r] \in SessionFile
        BY <1>1 DEF FileTypes
      <3>. QED
        BY <3>1 DEF SessionFile
    <2>. QED
      BY <1>1, <2>1, <2>2 DEF SessTypeOK, RunTypes, LoopTypes, Label
  <1>4. LoneSessionTrue
    BY <1>2 DEF LoneSessionTrue, Sole
  <1>5. ASSUME NEW j \in Job, outcomes[j] = "ok" PROVE jobs[j] = "completed"
    <2>1. j[1] \in Runs /\ j[2] \in 1..Steps[j[1]] /\ j = <<j[1], j[2]>>
      BY JobIsPair
    <2>2. Honest(j[1])
      BY <2>1 DEF SessInv
    <2>. QED
      BY <1>5, <2>1, <2>2 DEF Honest
  <1>6. ASSUME NEW i \in Runs, NEW r \in users[i], users[i] = {r}, policy[r] = "stop",
               files[i].status = "completed", NEW s \in 1..Steps[r]
        PROVE  outcomes[<<r, s>>] = "ok"
    <2>1. r \in Runs /\ i = r /\ Sole(r) /\ Honest(r)
      BY <1>1, <1>2, <1>6 DEF RunTypes
    <2>2. FinalStatus(r) = "completed" /\ (terminated[r] \/ step[r] > Steps[r])
      BY <1>6, <2>1 DEF Sole
    <2>3. ~ failed[r] /\ step[r] > Steps[r]
      BY <1>6, <2>2 DEF FinalStatus
    <2>4. s < step[r]
      BY <1>1, <2>1, <2>3 DEF LoopTypes, SessAssumption
    <2>. QED
      BY <2>1, <2>3, <2>4 DEF Honest
  <1>7. StepsAreReal
    BY <1>5, <1>6 DEF StepsAreReal
  <1>. QED
    BY <1>3, <1>4, <1>7

\* session_run, add_job, update_session_status: a session that one run has used is readable and
\* holds the jobs recorded in it, whatever kills the run and whenever; a step is shown as good
\* only if its job completed, and a session that is completed under `stop` has no failed step.
THEOREM SessionsToldTrue ==
    ASSUME SessAssumption PROVE SessSpec => [](SessTypeOK /\ LoneSessionTrue /\ StepsAreReal)
  <1>1. SessInit => SessInv
    BY SessInvInit
  <1>2. SessInv /\ [SessNext]_sessVars => SessInv'
    BY SessInvStep
  <1>3. SessInv => SessTypeOK /\ LoneSessionTrue /\ StepsAreReal
    BY InvSessions
  <1>. QED
    BY <1>1, <1>2, <1>3, PTL DEF SessSpec

-----------------------------------------------------------------------------
(* The health monitor                                                      *)

\* The thresholds and the list's limit are positive, and so is the unit of memory.
MonAssumption ==
    /\ {AlertMinutes, MaxAlerts, MaxRam, Fraction, MaxChecks} \subseteq Nat
    /\ AlertMinutes > 0 /\ MaxAlerts > 0 /\ Fraction > 0
    /\ None \notin Nat

MonTypes ==
    /\ mpc \in {"loop", "capture", "update", "sleep", "ended"}
    /\ upc \in [Users -> {"idle", "read", "flag", "stop", "join"}]
    /\ stopFlag \in BOOLEAN /\ handle \in BOOLEAN
    /\ writer \in {None, "monitor"} /\ joiner \in Users \cup {None}
    /\ state \in [cpu : Nat, ram : Nat, last : 0..MaxRam \cup {None}]
    /\ alerts \in Seq(Alert) /\ trail \in Seq(Check) /\ Len(trail) <= MaxChecks
    /\ mpc = "capture" => Len(trail) < MaxChecks
    /\ mpc = "update" => Len(trail) > 0

\* A count of the latest checks without a gap, up to the m-th, that are in a set.
Counts(c, m, S) ==
    /\ c \in Nat /\ c <= m
    /\ \A i \in 1..m : i > m - c => i \in S
    /\ c < m => m - c \notin S

\* The counters tell of the checks that were answered.
Counted ==
    /\ Counts(state.cpu, Checked, Highs) /\ Counts(state.ram, Checked, Growths)
    /\ state.last = IF Checked = 0 THEN None ELSE trail[Checked].ram

MonInv == MonTypes /\ Counted /\ AlertsAreDue

\* A threshold that a count has reached is a streak.
LEMMA CountIsStreak ==
    ASSUME MonAssumption, NEW m \in Nat, NEW c, NEW S, Counts(c, m, S)
    PROVE  c >= AlertMinutes <=> Streak(m, S)
  <1>1. c \in Nat /\ c <= m /\ AlertMinutes \in Nat /\ AlertMinutes > 0
    BY DEF Counts, MonAssumption
  <1>2. CASE c >= AlertMinutes
    <2>1. \A i \in (m - AlertMinutes + 1)..m : i \in 1..m /\ i > m - c
      BY <1>1, <1>2
    <2>. QED
      BY <1>1, <1>2, <2>1 DEF Counts, Streak
  <1>3. CASE c < AlertMinutes
    <2>1. m >= AlertMinutes => c < m /\ m - c \in (m - AlertMinutes + 1)..m
      BY <1>1, <1>3
    <2>. QED
      BY <1>1, <1>3, <2>1 DEF Counts, Streak
  <1>. QED
    BY <1>1, <1>2, <1>3

LEMMA CountsOn ==
    ASSUME NEW m \in Nat, NEW c, NEW S, NEW T, Counts(c, m, S),
           \A i \in 1..m : i \in T <=> i \in S
    PROVE  /\ Counts(c, m, T)
           /\ m + 1 \in T => Counts(c + 1, m + 1, T)
           /\ m + 1 \notin T => Counts(0, m + 1, T)
  <1>1. c \in Nat /\ c <= m
    BY DEF Counts
  <1>2. Counts(c, m, T)
    <2>1. c < m => m - c \in 1..m
      BY <1>1
    <2>. QED
      BY <1>1, <2>1 DEF Counts
  <1>3. ASSUME m + 1 \in T PROVE Counts(c + 1, m + 1, T)
    <2>1. ASSUME NEW i \in 1..(m + 1), i > (m + 1) - (c + 1) PROVE i \in T
      <3>1. i = m + 1 \/ (i \in 1..m /\ i > m - c)
        BY <1>1, <2>1
      <3>. QED
        BY <1>2, <1>3, <3>1 DEF Counts
    <2>2. c + 1 < m + 1 => (m + 1) - (c + 1) = m - c /\ c < m
      BY <1>1
    <2>3. c + 1 \in Nat /\ c + 1 <= m + 1
      BY <1>1
    <2>. QED
      BY <1>2, <2>1, <2>2, <2>3 DEF Counts
  <1>4. ASSUME m + 1 \notin T PROVE Counts(0, m + 1, T)
    BY <1>4 DEF Counts
  <1>. QED
    BY <1>2, <1>3, <1>4

Only(cond, a) == IF cond THEN {a} ELSE {}

\* add_alert keeps the latest.
LEMMA AddLatest ==
    ASSUME MonAssumption, NEW due \in SUBSET Alert, NEW list \in Seq(Alert), Latest(list, due),
           NEW a \in Alert, \A d \in due : Before(d, a), NEW cond \in BOOLEAN
    PROVE  /\ AddIf(cond, list, a) \in Seq(Alert)
           /\ Latest(AddIf(cond, list, a), due \cup Only(cond, a))
  <1>1. CASE ~ cond
    <2>1. AddIf(cond, list, a) = list /\ due \cup Only(cond, a) = due
      BY <1>1 DEF AddIf, Only
    <2>. QED
      BY <2>1
  <1>2. CASE cond
    <2> DEFINE n == Len(list)
               added2 == Add(list, a)
               all2 == due \cup {a}
    <2>1. AddIf(cond, list, a) = added2 /\ due \cup Only(cond, a) = all2
      BY <1>2 DEF AddIf, Only
    <2>2. n \in Nat /\ n <= MaxAlerts /\ MaxAlerts \in Nat /\ MaxAlerts > 0 /\ DOMAIN list = 1..n
      BY DEF Latest, MonAssumption
    <2>3. ASSUME NEW i \in DOMAIN list PROVE Before(list[i], a) /\ list[i] \in due
      BY DEF Latest
    <2>4. CASE n < MaxAlerts
      <3>1. added2 = Append(list, a)
        BY <2>4 DEF Add
      <3> HIDE DEF added2
      <3>2. /\ added2 \in Seq(Alert) /\ Len(added2) = n + 1 /\ DOMAIN added2 = 1..(n + 1)
            /\ \A i \in 1..n : added2[i] = list[i]
            /\ added2[n + 1] = a
        BY <2>2, <3>1
      <3>3. \A i \in 1..(n + 1) : i \in 1..n \/ i = n + 1
        BY <2>2
      <3>4. n + 1 <= MaxAlerts /\ n # MaxAlerts
        <4>1. n \in Nat /\ n < MaxAlerts /\ MaxAlerts \in Nat
          BY <2>2, <2>4
        <4> HIDE DEF n
        <4>. QED
          BY <4>1
      <3>5. ASSUME NEW i \in 1..(n + 1), NEW j \in 1..(n + 1), i < j
            PROVE  Before(added2[i], added2[j])
        <4>1. i \in 1..n
          BY <2>2, <3>5
        <4>2. CASE j = n + 1
          BY <2>2, <2>3, <3>2, <4>1, <4>2
        <4>3. CASE j \in 1..n
          BY <2>2, <3>2, <3>5, <4>1, <4>3 DEF Latest
        <4>. QED
          BY <3>3, <4>2, <4>3
      <3>6. \A i \in 1..(n + 1) : added2[i] \in all2
        BY <2>2, <2>3, <3>2, <3>3
      <3>7. ASSUME NEW d \in all2 PROVE \E i \in 1..(n + 1) : added2[i] = d
        <4>1. CASE d = a
          BY <2>2, <3>2, <4>1
        <4>2. CASE d \in due
          <5>1. PICK i \in 1..n : list[i] = d
            BY <2>2, <3>4, <4>2 DEF Latest
          <5>. QED
            BY <2>2, <3>2, <5>1
        <4>. QED
          BY <4>1, <4>2
      <3> HIDE DEF all2
      <3>8. Latest(added2, all2)
        BY <3>2, <3>4, <3>5, <3>6, <3>7 DEF Latest
      <3>. QED
        BY <2>1, <3>2, <3>8
    <2>5. CASE n = MaxAlerts
      <3>1. added2 = Append(Tail(list), a)
        BY <2>2, <2>5 DEF Add
      <3> HIDE DEF added2
      <3>2. /\ Tail(list) \in Seq(Alert) /\ Len(Tail(list)) = n - 1
            /\ \A i \in 1..(n - 1) : Tail(list)[i] = list[i + 1]
        BY <2>2, <2>5
      <3>3. /\ added2 \in Seq(Alert) /\ Len(added2) = n /\ DOMAIN added2 = 1..n
            /\ \A i \in 1..(n - 1) : added2[i] = Tail(list)[i]
            /\ added2[n] = a
        <4> DEFINE t == Tail(list)
        <4>1. t \in Seq(Alert) /\ Len(t) = n - 1
          BY <3>2
        <4> HIDE DEF t
        <4>2. Append(t, a) \in Seq(Alert) /\ Len(Append(t, a)) = n /\ DOMAIN Append(t, a) = 1..n
              /\ (\A i \in 1..(n - 1) : Append(t, a)[i] = t[i]) /\ Append(t, a)[n] = a
          BY <2>2, <2>5, <4>1
        <4>. QED
          BY <3>1, <4>2 DEF t
      <3>4. \A i \in 1..(n - 1) : added2[i] = list[i + 1] /\ i + 1 \in 1..n
        BY <2>2, <3>2, <3>3
      <3>5. \A i \in 1..n : i \in 1..(n - 1) \/ i = n
        <4>1. n \in Nat /\ n > 0
          BY <2>2, <2>5
        <4> HIDE DEF n
        <4>. QED
          BY <4>1
      <3>6. ASSUME NEW i \in 1..n, NEW j \in 1..n, i < j
            PROVE  Before(added2[i], added2[j])
        <4>1. i \in 1..(n - 1) /\ i + 1 \in 1..n
          BY <2>2, <3>6
        <4>2. CASE j = n
          BY <2>2, <2>3, <3>3, <3>4, <4>1, <4>2
        <4>3. CASE j \in 1..(n - 1)
          <5>1. i + 1 < j + 1 /\ j + 1 \in 1..n
            BY <2>2, <3>6, <4>3
          <5>. QED
            BY <2>2, <3>4, <4>1, <4>3, <5>1 DEF Latest
        <4>. QED
          BY <3>5, <4>2, <4>3
      <3>7. \A i \in 1..n : added2[i] \in all2
        BY <2>2, <2>3, <3>3, <3>4, <3>5
      <3>8. ASSUME NEW d \in all2
            PROVE  \/ \E i \in 1..n : added2[i] = d
                   \/ \A i \in 1..n : Before(d, added2[i])
        <4>1. CASE d = a
          BY <2>2, <2>5, <3>3, <4>1
        <4>2. ASSUME NEW i \in 1..n, list[i] = d, i > 1 PROVE \E k \in 1..n : added2[k] = d
          <5>1. i - 1 \in 1..(n - 1) /\ (i - 1) + 1 = i /\ i - 1 \in 1..n
            BY <2>2, <4>2
          <5>. QED
            BY <3>4, <4>2, <5>1
        <4>3. CASE d \in due /\ (\A i \in 1..n : Before(d, list[i]))
          BY <3>3, <3>4, <3>5, <4>3
        <4>4. CASE d \in due /\ list[1] = d
          <5>1. ASSUME NEW i \in 1..(n - 1) PROVE Before(d, added2[i])
            <6>1. 1 < i + 1 /\ i + 1 \in 1..n /\ 1 \in 1..n
              BY <2>2
            <6>2. Before(list[1], list[i + 1])
              BY <2>2, <6>1 DEF Latest
            <6>. QED
              BY <3>4, <4>4, <6>2
          <5>. QED
            BY <3>3, <3>5, <4>4, <5>1
        <4>5. d = a \/ (d \in due /\ ((\E i \in 1..n : list[i] = d) \/ (\A i \in 1..n : Before(d, list[i]))))
          BY <2>2 DEF Latest
        <4>6. \A i \in 1..n : i = 1 \/ i > 1
          BY <2>2
        <4>. QED
          BY <4>1, <4>2, <4>3, <4>4, <4>5, <4>6
      <3> HIDE DEF all2
      <3>9. Latest(added2, all2)
        BY <2>5, <2>2, <3>3, <3>6, <3>7, <3>8 DEF Latest
      <3>. QED
        BY <2>1, <3>3, <3>9
    <2>. QED
      <3>1. n \in Nat /\ n <= MaxAlerts /\ MaxAlerts \in Nat
        BY <2>2
      <3> HIDE DEF n
      <3>2. n < MaxAlerts \/ n = MaxAlerts
        BY <3>1
      <3>. QED
        BY <2>4, <2>5, <3>2
  <1>. QED
    BY <1>1, <1>2

\* What was due before a check, and what it makes due.
LEMMA DueGrows ==
    ASSUME MonAssumption, MonTypes, NEW n \in Nat, n = Len(trail), n > 0
    PROVE  LET before == {x \in Alert : x.check <= n - 1 /\ Due(x)}
               cpu == [kind |-> "cpu", check |-> n]
               mem == [kind |-> "memory", check |-> n]
               zom == [kind |-> "zombies", check |-> n]
           IN  /\ cpu \in Alert /\ mem \in Alert /\ zom \in Alert
               /\ {x \in Alert : x.check <= n /\ Due(x)} =
                    ((before \cup Only(Streak(n, Highs), cpu))
                       \cup Only(Streak(n, Growths), mem)) \cup Only(trail[n].zombies, zom)
  <1> DEFINE before == {x \in Alert : x.check <= n - 1 /\ Due(x)}
             cpu == [kind |-> "cpu", check |-> n]
             mem == [kind |-> "memory", check |-> n]
             zom == [kind |-> "zombies", check |-> n]
             upto == {x \in Alert : x.check <= n /\ Due(x)}
             all == ((before \cup Only(Streak(n, Highs), cpu))
                       \cup Only(Streak(n, Growths), mem)) \cup Only(trail[n].zombies, zom)
  <1>1. n \in 1..MaxChecks
    BY DEF MonTypes, MonAssumption
  <1>2. cpu \in Alert /\ mem \in Alert /\ zom \in Alert
    BY <1>1 DEF Alert, Kinds
  <1>3. Due(cpu) <=> Streak(n, Highs)
    BY DEF Due
  <1>4. Due(mem) <=> Streak(n, Growths)
    BY DEF Due
  <1>5. Due(zom) <=> trail[n].zombies
    <2>1. Due(zom) <=> n \in Zombies
      BY DEF Due
    <2>2. n \in DOMAIN trail
      BY DEF MonTypes
    <2>. QED
      BY <2>1, <2>2 DEF Zombies
  <1>6. ASSUME NEW x \in Alert PROVE x \in upto <=> x \in all
    <2>1. x = [kind |-> x.kind, check |-> x.check] /\ x.check \in Nat /\ x.kind \in Kinds
      BY <1>1, MonAssumption DEF Alert, MonAssumption
    <2>2. x.check <= n <=> x.check <= n - 1 \/ x.check = n
      BY <2>1
    <2>3. x.check = n <=> x = cpu \/ x = mem \/ x = zom
      BY <2>1 DEF Kinds
    <2>4. x.check <= n - 1 => x # cpu /\ x # mem /\ x # zom
      BY <2>1
    <2> HIDE DEF cpu, mem, zom
    <2>5. x \in upto <=> x \in before \/ (x = cpu /\ Due(cpu)) \/ (x = mem /\ Due(mem)) \/ (x = zom /\ Due(zom))
      BY <2>2, <2>3
    <2> HIDE DEF before
    <2>. QED
      BY <1>3, <1>4, <1>5, <2>5 DEF Only
  <1>7. upto \subseteq Alert /\ all \subseteq Alert
    BY <1>2 DEF Only
  <1>8. upto = all
    <2> HIDE DEF upto, all
    <2>. QED
      BY <1>6, <1>7
  <1>. QED
    BY <1>2, <1>8

\* The check that is answered: the counts go on, and what it makes due is in the list.
LEMMA UpdateStep == MonAssumption /\ MonInv /\ Update => MonInv'
  <1> SUFFICES ASSUME MonAssumption, MonInv, Update
               PROVE  MonInv'
    OBVIOUS
  <1>1. MonTypes /\ Counted /\ AlertsAreDue /\ mpc = "update" /\ mpc' = "sleep"
    BY DEF MonInv, Update
  <1>2. UNCHANGED <<upc, stopFlag, handle, joiner, trail>> /\ writer' = "monitor"
    BY DEF Update
  <1> DEFINE n == Len(trail)
             seen == trail[n]
             cpu == [kind |-> "cpu", check |-> n]
             mem == [kind |-> "memory", check |-> n]
             zom == [kind |-> "zombies", check |-> n]
  <1>3. n \in Nat /\ n > 0 /\ n - 1 \in Nat /\ (n - 1) + 1 = n /\ trail \in Seq(Check)
    BY <1>1 DEF MonTypes
  <1>4. seen \in Check /\ DOMAIN trail = 1..n /\ n \in 1..n
    BY <1>3
  <1>5. seen.high \in BOOLEAN /\ seen.zombies \in BOOLEAN /\ seen.ram \in 0..MaxRam
    BY <1>4 DEF Check
  <1>6. Checked = n - 1 /\ Checked' = n
    BY <1>1, <1>2 DEF Checked
  <1>7. /\ state' = [cpu |-> CpuCount(seen), ram |-> RamCount(seen), last |-> seen.ram]
        /\ alerts' = Raised(seen, n)
    BY <1>3 DEF Update, Last
  <1>8. Counts(state.cpu, n - 1, Highs) /\ Counts(state.ram, n - 1, Growths)
        /\ state.last = IF n - 1 = 0 THEN None ELSE trail[n - 1].ram
    BY <1>1, <1>6 DEF Counted
  <1>9. Counts(CpuCount(seen), n, Highs)
    <2>1. n \in Highs <=> seen.high
      BY <1>4 DEF Highs
    <2>2. CpuCount(seen) = IF n \in Highs THEN state.cpu + 1 ELSE 0
      BY <2>1 DEF CpuCount
    <2> DEFINE k == n - 1
    <2>3. /\ k + 1 \in Highs => Counts(state.cpu + 1, k + 1, Highs)
          /\ k + 1 \notin Highs => Counts(0, k + 1, Highs)
      <3>1. k \in Nat /\ Counts(state.cpu, k, Highs)
        BY <1>3, <1>8
      <3> HIDE DEF k
      <3>. QED
        BY <3>1, CountsOn
    <2>4. k + 1 = n
      BY <1>3
    <2> HIDE DEF n, seen, k
    <2>. QED
      BY <2>2, <2>3, <2>4
  <1>10. /\ Counts(RamCount(seen), n, Growths)
         /\ state.last # None /\ seen.ram > state.last /\ RamCount(seen) >= AlertMinutes
              <=> RamCount(seen) >= AlertMinutes
    <2>1. CASE n = 1
      <3>1. state.last = None /\ state.ram = 0
        BY <1>8, <2>1 DEF Counts
      <3>2. n \notin Growths /\ RamCount(seen) = 0
        BY <2>1, <3>1 DEF Growths, RamCount
      <3>3. Counts(0, n, Growths)
        BY <2>1, <3>2 DEF Counts
      <3>. QED
        BY <3>1, <3>2, <3>3 DEF MonAssumption
    <2>2. CASE n # 1
      <3>1. n - 1 \in 1..n /\ n - 1 # 0
        BY <1>3, <2>2
      <3>2. trail[n - 1] \in Check
        BY <1>3, <1>4, <3>1
      <3>3. state.last = trail[n - 1].ram /\ state.last \in Nat /\ state.last # None
        BY <1>8, <3>1, <3>2 DEF Check, MonAssumption
      <3>4. n \in Growths <=> seen.ram > state.last
        BY <1>4, <2>2, <3>3 DEF Growths
      <3>5. RamCount(seen) = IF n \in Growths THEN state.ram + 1 ELSE 0
        BY <3>3, <3>4 DEF RamCount
      <3>6. Counts(RamCount(seen), n, Growths)
        <4> DEFINE k == n - 1
        <4>1. /\ k + 1 \in Growths => Counts(state.ram + 1, k + 1, Growths)
              /\ k + 1 \notin Growths => Counts(0, k + 1, Growths)
          <5>1. k \in Nat /\ Counts(state.ram, k, Growths)
            BY <1>3, <1>8
          <5> HIDE DEF k
          <5>. QED
            BY <5>1, CountsOn
        <4>2. k + 1 = n
          BY <1>3
        <4> HIDE DEF n, seen, k
        <4>. QED
          BY <3>5, <4>1, <4>2
      <3>7. RamCount(seen) >= AlertMinutes => n \in Growths
        BY <3>5 DEF MonAssumption
      <3>. QED
        BY <3>3, <3>4, <3>6, <3>7
    <2>. QED
      BY <2>1, <2>2
  <1>11. /\ CpuCount(seen) >= AlertMinutes <=> Streak(n, Highs)
         /\ RamCount(seen) >= AlertMinutes <=> Streak(n, Growths)
    <2> HIDE DEF n, seen
    <2>. QED
      BY <1>3, <1>9, <1>10, CountIsStreak
  <1> DEFINE before == {x \in Alert : x.check <= n - 1 /\ Due(x)}
             one == AddIf(Streak(n, Highs), alerts, cpu)
             two == AddIf(Streak(n, Growths), one, mem)
             three == AddIf(seen.zombies, two, zom)
             due1 == before \cup Only(Streak(n, Highs), cpu)
             due2 == due1 \cup Only(Streak(n, Growths), mem)
             due3 == due2 \cup Only(seen.zombies, zom)
  <1>12. alerts' = three
    BY <1>7, <1>10, <1>11 DEF Raised, AddIf
  <1>13. /\ cpu \in Alert /\ mem \in Alert /\ zom \in Alert
         /\ {x \in Alert : x.check <= n /\ Due(x)} = due3
    BY <1>1, <1>3, DueGrows
  <1>14. /\ \A x \in before : Before(x, cpu) /\ Before(x, mem) /\ Before(x, zom)
         /\ Before(cpu, mem) /\ Before(cpu, zom) /\ Before(mem, zom)
    <2>1. \A x \in before : x.check < n
      <3>1. \A x \in Alert : x.check \in Nat
        BY DEF Alert, MonAssumption
      <3>. QED
        BY <1>3, <3>1
    <2>. QED
      BY <2>1 DEF Before, Rank
  <1>15. before \in SUBSET Alert /\ Latest(alerts, before) /\ alerts \in Seq(Alert)
    BY <1>1, <1>6 DEF AlertsAreDue, AllDue, MonTypes
  <1> HIDE DEF before, cpu, mem, zom
  <1>16. Streak(n, Highs) \in BOOLEAN /\ Streak(n, Growths) \in BOOLEAN
    BY DEF Streak
  <1>17. one \in Seq(Alert) /\ Latest(one, due1)
    BY <1>13, <1>14, <1>15, <1>16, AddLatest
  <1>18. due1 \in SUBSET Alert /\ \A x \in due1 : Before(x, mem) /\ Before(x, zom)
    BY <1>13, <1>14, <1>15 DEF Only
  <1> HIDE DEF one, due1
  <1>19. two \in Seq(Alert) /\ Latest(two, due2)
    BY <1>13, <1>16, <1>17, <1>18, AddLatest
  <1>20. due2 \in SUBSET Alert /\ \A x \in due2 : Before(x, zom)
    BY <1>13, <1>14, <1>18 DEF Only
  <1> HIDE DEF two, due2
  <1>21. three \in Seq(Alert) /\ Latest(three, due3)
    BY <1>5, <1>13, <1>19, <1>20, AddLatest
  <1> HIDE DEF three, due3
  <1>22. AlertsAreDue'
    <2>1. AllDue' = {x \in Alert : x.check <= n /\ Due(x)}
      BY <1>2, <1>6 DEF AllDue, Due, Highs, Growths, Zombies, Streak
    <2>. QED
      BY <1>12, <1>13, <1>21, <2>1 DEF AlertsAreDue
  <1>23. Counted'
    <2>1. Highs' = Highs /\ Growths' = Growths
      BY <1>2 DEF Highs, Growths
    <2>. QED
      BY <1>2, <1>3, <1>6, <1>7, <1>9, <1>10, <2>1 DEF Counted
  <1>24. MonTypes'
    BY <1>1, <1>2, <1>5, <1>7, <1>9, <1>10, <1>12, <1>21 DEF MonTypes, Counts
  <1>. QED
    BY <1>22, <1>23, <1>24 DEF MonInv

\* A check that is made, and not answered yet, changes nothing of the earlier ones.
LEMMA CheckStep == MonAssumption /\ MonInv /\ CheckMachine => MonInv'
  <1> SUFFICES ASSUME MonAssumption, MonInv, CheckMachine
               PROVE  MonInv'
    OBVIOUS
  <1>1. MonTypes /\ Counted /\ AlertsAreDue /\ mpc = "capture" /\ mpc' = "update"
    BY DEF MonInv, CheckMachine
  <1>2. UNCHANGED <<upc, stopFlag, handle, writer, joiner, state, alerts>>
    BY DEF CheckMachine
  <1> DEFINE m == Len(trail)
  <1>3. PICK c : c \in Check /\ trail' = Append(trail, c)
    <2>1. PICK high \in BOOLEAN, zombies \in BOOLEAN, used \in 0..(MaxRam * Fraction) :
            trail' = Append(trail, [high |-> high, ram |-> Reported(used), zombies |-> zombies])
      BY DEF CheckMachine
    <2>2. Reported(used) \in 0..MaxRam
      <3>1. MaxRam \in Nat /\ Fraction \in Nat /\ Fraction > 0
        BY DEF MonAssumption
      <3>2. MaxRam * Fraction \in Nat
        BY <3>1
      <3>3. used \in Nat /\ used <= MaxRam * Fraction
        BY <3>2
      <3> DEFINE q == used \div Fraction
      <3>4. q \in Nat /\ q * Fraction <= used
        BY <3>1, <3>3
      <3> HIDE DEF q
      <3>5. q <= MaxRam
        BY <3>1, <3>2, <3>3, <3>4
      <3>. QED
        BY <3>4, <3>5 DEF Reported, q
    <2>. QED
      BY <2>1, <2>2 DEF Check
  <1>4. m \in Nat /\ trail \in Seq(Check) /\ DOMAIN trail = 1..m
    BY <1>1 DEF MonTypes
  <1>5. /\ Len(trail') = m + 1 /\ trail' \in Seq(Check) /\ DOMAIN trail' = 1..(m + 1)
        /\ \A i \in 1..m : trail'[i] = trail[i]
    BY <1>3, <1>4
  <1>6. Checked = m /\ Checked' = m
    BY <1>1, <1>4, <1>5 DEF Checked
  <1>7. \A i \in 1..m : i \in 1..(m + 1) /\ (i # 1 => i - 1 \in 1..m)
    BY <1>4
  <1>8. \A i \in 1..m : /\ i \in Highs' <=> i \in Highs
                        /\ i \in Growths' <=> i \in Growths
                        /\ i \in Zombies' <=> i \in Zombies
    BY <1>4, <1>5, <1>7 DEF Highs, Growths, Zombies
  <1>9. Counts(state.cpu, m, Highs') /\ Counts(state.ram, m, Growths')
    <2>1. Counts(state.cpu, m, Highs) /\ Counts(state.ram, m, Growths)
      BY <1>1, <1>6 DEF Counted
    <2> HIDE DEF m
    <2>. QED
      BY <1>4, <1>8, <2>1, CountsOn
  <1>10. Counted'
    <2>1. m # 0 => m \in 1..m
      BY <1>4
    <2>. QED
      BY <1>1, <1>2, <1>5, <1>6, <1>9, <2>1 DEF Counted
  <1>11. AllDue' = AllDue
    <2>1. ASSUME NEW x \in Alert, x.check <= m PROVE Due(x)' <=> Due(x)
      <3>1. x.check \in Nat /\ x.check > 0 /\ AlertMinutes \in Nat
        BY DEF Alert, MonAssumption
      <3>2. x.check \in 1..m
        BY <1>4, <2>1, <3>1
      <3>3. x.check >= AlertMinutes => \A i \in (x.check - AlertMinutes + 1)..x.check : i \in 1..m
        BY <1>4, <2>1, <3>1
      <3>4. Streak(x.check, Highs') <=> Streak(x.check, Highs)
        BY <1>8, <3>3 DEF Streak
      <3>5. Streak(x.check, Growths') <=> Streak(x.check, Growths)
        BY <1>8, <3>3 DEF Streak
      <3>. QED
        <4>1. x.kind = "cpu" \/ x.kind = "memory" \/ x.kind = "zombies"
          BY DEF Alert, Kinds
        <4>2. CASE x.kind = "cpu"
          BY <3>4, <4>2 DEF Due
        <4>3. CASE x.kind = "memory"
          BY <3>5, <4>3 DEF Due
        <4>4. CASE x.kind = "zombies"
          BY <1>8, <3>2, <4>4 DEF Due
        <4>. QED
          BY <4>1, <4>2, <4>3, <4>4
    <2>. QED
      BY <1>6, <2>1 DEF AllDue
  <1>12. AlertsAreDue'
    BY <1>1, <1>2, <1>11 DEF AlertsAreDue
  <1>13. MonTypes'
    <2>1. m + 1 <= MaxChecks
      BY <1>1, <1>4 DEF MonTypes, MonAssumption
    <2>. QED
      BY <1>1, <1>2, <1>4, <1>5, <2>1 DEF MonTypes
  <1>. QED
    BY <1>10, <1>12, <1>13 DEF MonInv

LEMMA MonInvStep == MonAssumption /\ MonInv /\ [MonNext]_monVars => MonInv'
  <1> SUFFICES ASSUME MonAssumption, MonInv, [MonNext]_monVars
               PROVE  MonInv'
    OBVIOUS
  <1>1. CASE Update \/ CheckMachine
    BY <1>1, UpdateStep, CheckStep
  <1>2. CASE \/ Loop \/ Slept \/ UNCHANGED monVars
             \/ \E u \in Users : Health(u) \/ HealthRead(u) \/ StopMonitor(u) \/ TakeHandle(u) \/ Joined(u)
    <2>1. UNCHANGED <<state, alerts, trail>>
      BY <1>2 DEF Loop, Slept, monVars, Health, HealthRead, StopMonitor, TakeHandle, Joined
    <2>2. mpc' = mpc \/ (mpc # "update" /\ mpc' # "update")
      BY <1>2 DEF Loop, Slept, monVars, Health, HealthRead, StopMonitor, TakeHandle, Joined
    <2>3. Checked' = Checked
      BY <2>1, <2>2 DEF Checked
    <2>4. Highs' = Highs /\ Growths' = Growths /\ Zombies' = Zombies
      BY <2>1 DEF Highs, Growths, Zombies
    <2>5. Counted'
      BY <2>1, <2>3, <2>4 DEF MonInv, Counted
    <2>6. AlertsAreDue'
      BY <2>1, <2>3, <2>4 DEF MonInv, AlertsAreDue, AllDue, Due
    <2>7. MonTypes'
      <3>1. MonTypes
        BY DEF MonInv
      <3>2. CASE Loop \/ Slept \/ UNCHANGED monVars
        BY <2>1, <3>1, <3>2 DEF Loop, Slept, monVars, MonTypes
      <3>3. ASSUME NEW u \in Users,
                   Health(u) \/ HealthRead(u) \/ StopMonitor(u) \/ TakeHandle(u) \/ Joined(u)
            PROVE  MonTypes'
        BY <2>1, <3>1, <3>3
           DEF Health, HealthRead, StopMonitor, TakeHandle, Joined, UserGoto, MonTypes
      <3>. QED
        BY <1>2, <3>2, <3>3
    <2>. QED
      BY <2>5, <2>6, <2>7 DEF MonInv
  <1>. QED
    BY <1>1, <1>2 DEF MonNext

LEMMA MonInvInit == MonAssumption /\ MonInit => MonInv
  <1> SUFFICES ASSUME MonAssumption, MonInit
               PROVE  MonInv
    OBVIOUS
  <1>1. Checked = 0 /\ Len(trail) = 0 /\ Len(alerts) = 0 /\ DOMAIN alerts = {}
    BY DEF MonInit, Checked
  <1>2. AllDue = {}
    BY <1>1 DEF AllDue, Alert
  <1>3. MonTypes
    <2>1. state \in [cpu : Nat, ram : Nat, last : 0..MaxRam \cup {None}]
      BY DEF MonInit
    <2>2. alerts \in Seq(Alert) /\ trail \in Seq(Check)
      BY DEF MonInit
    <2>3. 0 <= MaxChecks
      BY DEF MonAssumption
    <2>. QED
      BY <1>1, <2>1, <2>2, <2>3 DEF MonInit, MonTypes
  <1>4. Counted
    BY <1>1 DEF MonInit, Counted, Counts
  <1>5. AlertsAreDue
    BY <1>1, <1>2 DEF AlertsAreDue, Latest, MonAssumption
  <1>. QED
    BY <1>3, <1>4, <1>5 DEF MonInv

LEMMA InvAlerts == MonAssumption /\ MonInv => MonTypeOK /\ AlertsAreDue
  <1> SUFFICES ASSUME MonAssumption, MonInv
               PROVE  MonTypeOK
    BY DEF MonInv
  <1>1. MonTypes /\ Counted /\ AlertsAreDue
    BY DEF MonInv
  <1>2. Len(trail) \in Nat /\ MaxChecks \in Nat /\ Len(trail) <= MaxChecks
    BY <1>1 DEF MonTypes, MonAssumption
  <1>3. Checked \in Nat /\ Checked <= MaxChecks
    BY <1>1, <1>2 DEF Checked, MonTypes
  <1>4. state.cpu \in 0..MaxChecks /\ state.ram \in 0..MaxChecks
    BY <1>1, <1>2, <1>3 DEF Counted, Counts
  <1>5. state \in [cpu : 0..MaxChecks, ram : 0..MaxChecks, last : 0..MaxRam \cup {None}]
    BY <1>1, <1>4 DEF MonTypes
  <1>6. Len(alerts) <= MaxAlerts
    BY <1>1 DEF AlertsAreDue, Latest
  <1>. QED
    BY <1>1, <1>2, <1>5, <1>6 DEF MonTypes, MonTypeOK

\* monitor_loop, add_alert: whoever stops the monitor or asks it, the alerts are the latest of
\* those that were due at the checks so far, none that was not, none twice, none left out.
THEOREM AlertsTrue ==
    ASSUME MonAssumption PROVE MonSpec => [](MonTypeOK /\ AlertsAreDue)
  <1>1. MonInit => MonInv
    BY MonInvInit
  <1>2. MonInv /\ [MonNext]_monVars => MonInv'
    BY MonInvStep
  <1>3. MonInv => MonTypeOK /\ AlertsAreDue
    BY InvAlerts
  <1>. QED
    BY <1>1, <1>2, <1>3, PTL DEF MonSpec
==============================================================================
