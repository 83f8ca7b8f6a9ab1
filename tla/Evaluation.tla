----------------------------- MODULE Evaluation -----------------------------
(***************************************************************************)
(* The evaluations of one tenant (services/evaluation_service.py,          *)
(* api/v1/admin/evaluation.py): samples that administrators save, change   *)
(* and delete, evaluations that put samples and questions made from the    *)
(* documents to a scorer, and the report that opens the gate of a model's  *)
(* activation.  All of it is in files which four API processes and the     *)
(* workers read and rewrite: a file is emptied when it is opened and gets  *)
(* its text when it is closed, and whoever reads it in between finds none. *)
(*                                                                         *)
(*   clock    passing of time                                              *)
(*   samples  evaluation_<tenant>.manual.dataset.json                      *)
(*   report   evaluation_<tenant>.json                                     *)
(*   dataset  evaluation_<tenant>.dataset.json                             *)
(*   edit     requests about samples, each in another process              *)
(*   run      evaluations, each in another process                         *)
(*   made     requests and evaluations so far                              *)
(*   owed     history: the samples the administrators have been told are   *)
(*            saved, and have neither changed nor deleted                  *)
(*   raced    history: two requests about samples have overlapped, or one  *)
(*            has died on the open file                                    *)
(*   doubled  history: two samples have had the same id                    *)
(*   clashed  history: two evaluations have written their files at the     *)
(*            same time, or one has died writing them                      *)
(*   before   history: of each evaluation, those that had written their    *)
(*            files when it opened the report                              *)
(*                                                                         *)
(* A sample is its question together with its reference, which is its      *)
(* signature; the id is the hash of the first signature it had.  The       *)
(* scorer is a choice, and so are the questions made from the documents.   *)
(***************************************************************************)
EXTENDS Integers, FiniteSets, SequencesExt

CONSTANTS Signatures, Editors, Evaluations,
          Corpora,    \* what may be generated from the documents: sequences of signatures
          Settings,   \* [limit, all, halves]: sample limit, all manual samples, ratio in halves
          MinSize,    \* ci_gate_min_eval_dataset_size
          MaxAge,     \* how old a report may be
          MaxMade,    \* bound on requests about samples and evaluations
          MaxClock,   \* bound on time
          None

ASSUME MaxAgeAssumption == MaxAge \in Nat

ASSUME EvaluationAssumption ==
    /\ Signatures # {} /\ Corpora # {} /\ Settings # {}
    /\ \A c \in Corpora : c \in Seq(Signatures)
    /\ \A s \in Settings : s \in [limit : Nat \ {0}, all : BOOLEAN, halves : 0 .. 2]
    /\ MaxMade \in Nat /\ MaxClock \in Nat

VARIABLES clock, samples, report, dataset, edit, run, made, owed, raced, doubled, clashed, before

files == <<samples, report, dataset>>

vars == <<clock, files, edit, run, made, owed, raced, doubled, clashed, before>>

----------------------------------------------------------------------------
\* Types

Sample == [id : Signatures, sig : Signatures, changed : 0 .. MaxClock]

\* A sample counts as manual by the task_type "manual_debug", which the page sends with
\* every sample; the endpoint would take another, whose use the list would not find.
Entry == [sig : Signatures, manual : BOOLEAN]

\* A file of a text that parses holds its value.
File(V) == [state : {"absent", "empty", "garbled", "whole"}, value : V]

\* Reports without "generated_at" are of an older version.
Report == [legacy : BOOLEAN, by : Evaluations \union {None}, at : 0 .. MaxClock, passed : BOOLEAN,
           total : Nat, used : Nat]

Edit == [pc : {"idle", "loaded", "open"}, kind : {"append", "update", "delete"},
         sample : Sample, sig : Signatures, items : Seq(Sample)]

Run == [pc : {"idle", "score", "stamped", "report", "markdown", "dataset", "history", "done",
              "failed"},
        setting : Settings, generated : Corpora, manual : Seq(Sample), entries : Seq(Entry),
        at : 0 .. MaxClock, passed : BOOLEAN,
        owed : SUBSET Signatures, sure : BOOLEAN]

TypeOK ==
    /\ clock \in 0 .. MaxClock
    /\ samples \in File(Seq(Sample))
    /\ report \in File(Report)
    /\ dataset \in File(Seq(Entry))
    /\ edit \in [Editors -> Edit]
    /\ run \in [Evaluations -> Run]
    /\ made \in 0 .. MaxMade
    /\ owed \subseteq Signatures
    /\ {raced, doubled, clashed} \subseteq BOOLEAN
    /\ before \in [Evaluations -> SUBSET Evaluations]

SomeSignature == CHOOSE s \in Signatures : TRUE

NoSample == [id |-> SomeSignature, sig |-> SomeSignature, changed |-> 0]

IdleEdit == [pc |-> "idle", kind |-> "append", sample |-> NoSample, sig |-> SomeSignature,
             items |-> <<>>]

IdleRun == [pc |-> "idle", setting |-> CHOOSE s \in Settings : TRUE,
            generated |-> CHOOSE c \in Corpora : TRUE, manual |-> <<>>, entries |-> <<>>,
            at |-> 0, passed |-> FALSE, owed |-> {}, sure |-> FALSE]

OldReport == [legacy |-> TRUE, by |-> None, at |-> 0, passed |-> TRUE, total |-> 0, used |-> 0]

Init ==
    /\ clock = 0
    /\ samples = [state |-> "absent", value |-> <<>>]
    /\ report \in [state : {"absent", "whole"}, value : {OldReport}]
    /\ dataset = [state |-> "absent", value |-> <<>>]
    /\ edit = [e \in Editors |-> IdleEdit]
    /\ run = [v \in Evaluations |-> IdleRun]
    /\ made = 0
    /\ owed = {}
    /\ raced = FALSE /\ doubled = FALSE /\ clashed = FALSE
    /\ before = [v \in Evaluations |-> {}]

----------------------------------------------------------------------------
\* Files

Opened(file) == [file EXCEPT !.state = "empty"]

\* What a file may be after a text is written from its start: one that another
\* process has written meanwhile keeps the end of its text if that was longer.
Written(file, value) ==
    {[state |-> s, value |-> value] :
        s \in IF file.state = "empty" THEN {"whole"} ELSE {"whole", "garbled"}}

\* load_manual_samples: what does not parse is no sample.
Load == IF samples.state = "whole" THEN samples.value ELSE <<>>

Sigs(items) == {items[i].sig : i \in DOMAIN items}

\* The elements of s that are in V, in their order.
Only(s, V) ==
    LET kept[k \in 0 .. Len(s)] ==
          IF k = 0 THEN <<>>
          ELSE IF s[k] \in V THEN Append(kept[k - 1], s[k]) ELSE kept[k - 1]
    IN kept[Len(s)]

----------------------------------------------------------------------------
\* Requests about samples

Editing == {e \in Editors : edit[e].pc # "idle"}

Stamped(id, sig) == [id |-> id, sig |-> sig, changed |-> clock]

\* Mutant of Appended: what is replaced is sought by its id.
AppendedById(sig) ==
    <<Stamped(sig, sig)>> \o Only(Load, {x \in Range(Load) : x.id # sig})

\* append_manual_sample: the new one first, without those of the same signature.
Appended(sig) ==
    <<Stamped(sig, sig)>> \o Only(Load, {x \in Range(Load) : x.sig # sig})

\* update_manual_sample: everything under the id becomes what has been asked for.
Updated(id, sig) ==
    [i \in DOMAIN Load |-> IF Load[i].id = id THEN Stamped(id, sig) ELSE Load[i]]

\* delete_manual_sample
Remaining(id) == Only(Load, {x \in Range(Load) : x.id # id})

\* A request has read the samples and made the new list.
BeginEdit(e, kind, sample, sig, items) ==
    /\ edit[e].pc = "idle" /\ made < MaxMade
    /\ edit' = [edit EXCEPT ![e] = [pc |-> "loaded", kind |-> kind, sample |-> sample,
                                    sig |-> sig, items |-> items]]
    /\ made' = made + 1
    /\ raced' = (raced \/ Editing # {})
    /\ UNCHANGED <<clock, files, run, owed, doubled, clashed, before>>

AppendSample(e) ==
    \E sig \in Signatures : BeginEdit(e, "append", Stamped(sig, sig), sig, Appended(sig))

\* The page offers the samples of the file; only the reference can be changed there.
UpdateSample(e) ==
    \E x \in Range(Load), sig \in Signatures :
        BeginEdit(e, "update", x, sig, Updated(x.id, sig))

DeleteSample(e) ==
    \E x \in Range(Load) : BeginEdit(e, "delete", x, x.sig, Remaining(x.id))

OpenSamples(e) ==
    /\ edit[e].pc = "loaded"
    /\ samples' = Opened(samples)
    /\ edit' = [edit EXCEPT ![e].pc = "open"]
    /\ UNCHANGED <<clock, report, dataset, run, made, owed, raced, doubled, clashed, before>>

\* The file is written and the administrator told so.
SaveSamples(e) ==
    /\ edit[e].pc = "open"
    /\ samples' \in Written(samples, edit[e].items)
    /\ edit' = [edit EXCEPT ![e] = IdleEdit]
    /\ owed' = (IF edit[e].kind = "append" THEN owed ELSE owed \ {edit[e].sample.sig})
                 \union (IF edit[e].kind = "delete" THEN {} ELSE {edit[e].sig})
    /\ doubled' = (doubled \/ \E i, j \in DOMAIN edit[e].items :
                                  i # j /\ edit[e].items[i].id = edit[e].items[j].id)
    /\ UNCHANGED <<clock, report, dataset, run, made, raced, clashed, before>>

\* The process of a request ends.
LoseEdit(e) ==
    /\ edit[e].pc # "idle"
    /\ edit' = [edit EXCEPT ![e] = IdleEdit]
    /\ raced' = (raced \/ edit[e].pc = "open")
    /\ UNCHANGED <<clock, files, run, made, owed, doubled, clashed, before>>

----------------------------------------------------------------------------
\* Evaluations

\* One sample more, unless it is there or there is no room.
Add(entries, entry, limit) ==
    IF Len(entries) >= limit \/ entry.sig \in Sigs(entries)
    THEN entries ELSE Append(entries, entry)

FillUp(entries, more, manual, limit) ==
    LET filled[k \in 0 .. Len(more)] ==
          IF k = 0 THEN entries
          ELSE Add(filled[k - 1], [sig |-> more[k], manual |-> manual], limit)
    IN filled[Len(more)]

\* manual_target and effective_limit of _merge_manual_samples
Target(setting, manual) ==
    LET share == (setting.limit * setting.halves + 1) \div 2
    IN IF setting.all \/ share > Len(manual) THEN Len(manual) ELSE share

Limit(setting, manual) ==
    IF setting.all /\ Len(manual) > setting.limit THEN Len(manual) ELSE setting.limit

\* _merge_manual_samples: the share of the manual samples, then what has been
\* generated, then the other manual samples.
Merge(setting, manual, generated) ==
    LET sigs == [i \in DOMAIN manual |-> manual[i].sig]
        target == Target(setting, manual)
        limit == Limit(setting, manual)
        first == FillUp(<<>>, SubSeq(sigs, 1, target), TRUE, limit)
        second == FillUp(first, generated, FALSE, limit)
    IN FillUp(second, SubSeq(sigs, target + 1, Len(sigs)), TRUE, limit)

\* generate: what the chunks of the latest documents give, or of made-up ones.
Generation == Corpora

\* The documents have been read; the samples are, and merged.
Collect(v) ==
    /\ run[v].pc = "idle" /\ made < MaxMade
    /\ made' = made + 1
    /\ \E setting \in Settings, generated \in Generation :
          run' = [run EXCEPT ![v] =
                    [IdleRun EXCEPT !.pc = "score", !.setting = setting,
                                    !.generated = generated, !.manual = Load,
                                    !.entries = Merge(setting, Load, generated),
                                    !.owed = owed,
                                    !.sure = ~raced /\ ~doubled
                                             /\ \A e \in Editors : edit[e].pc # "open"]]
    /\ UNCHANGED <<clock, files, edit, owed, raced, doubled, clashed, before>>

Writing(v) == run[v].pc \in {"report", "markdown", "dataset"}

\* evaluate: whether every score will do.
Scores == BOOLEAN

\* _build_gate: every score reaches its threshold and the samples are enough.  The
\* payload is stamped, and a callback is awaited before the report is opened.
Score(v) ==
    /\ run[v].pc = "score"
    /\ \E good \in Scores :
          run' = [run EXCEPT ![v].pc = "stamped", ![v].at = clock,
                             ![v].passed = good /\ Len(run[v].entries) >= MinSize]
    /\ UNCHANGED <<clock, files, edit, made, owed, raced, doubled, clashed, before>>

OpenReport(v) ==
    /\ run[v].pc = "stamped"
    /\ report' = Opened(report)
    /\ run' = [run EXCEPT ![v].pc = "report"]
    /\ clashed' = (clashed \/ \E w \in Evaluations : Writing(w))
    /\ before' = [before EXCEPT ![v] = {w \in Evaluations : run[w].pc \in {"history", "done"}}]
    /\ UNCHANGED <<clock, samples, dataset, edit, made, owed, raced, doubled>>

Manual(entries) == {i \in DOMAIN entries : entries[i].manual}

Used(entries) == Cardinality(Manual(entries))

WriteReport(v) ==
    /\ run[v].pc = "report"
    /\ report' \in Written(report, [legacy |-> FALSE, by |-> v, at |-> run[v].at,
                                    passed |-> run[v].passed, total |-> Len(run[v].manual),
                                    used |-> Used(run[v].entries)])
    /\ run' = [run EXCEPT ![v].pc = "markdown"]
    /\ UNCHANGED <<clock, samples, dataset, edit, made, owed, raced, doubled, clashed, before>>

\* After the report as text, which only people read, the samples.
OpenDataset(v) ==
    /\ run[v].pc = "markdown"
    /\ dataset' = Opened(dataset)
    /\ run' = [run EXCEPT ![v].pc = "dataset"]
    /\ UNCHANGED <<clock, samples, report, edit, made, owed, raced, doubled, clashed, before>>

WriteDataset(v) ==
    /\ run[v].pc = "dataset"
    /\ dataset' \in Written(dataset, run[v].entries)
    /\ run' = [run EXCEPT ![v].pc = "history"]
    /\ UNCHANGED <<clock, samples, report, edit, made, owed, raced, doubled, clashed, before>>

\* The snapshot in Redis and the audit.
Conclude(v) ==
    /\ run[v].pc = "history"
    /\ run' = [run EXCEPT ![v].pc = "done"]
    /\ UNCHANGED <<clock, files, edit, made, owed, raced, doubled, clashed, before>>

\* The scorer, a progress callback, Redis or the audit raises, or the process ends.
FailRun(v) ==
    /\ run[v].pc \notin {"idle", "done", "failed"}
    /\ run' = [run EXCEPT ![v].pc = "failed"]
    /\ clashed' = (clashed \/ Writing(v))
    /\ UNCHANGED <<clock, files, edit, made, owed, raced, doubled, before>>

Tick ==
    /\ clock < MaxClock
    /\ clock' = clock + 1
    /\ UNCHANGED <<files, edit, run, made, owed, raced, doubled, clashed, before>>

EditStep(e) ==
    \/ AppendSample(e) \/ UpdateSample(e) \/ DeleteSample(e)
    \/ OpenSamples(e) \/ SaveSamples(e) \/ LoseEdit(e)

RunStep(v) ==
    \/ Collect(v) \/ Score(v) \/ OpenReport(v) \/ WriteReport(v)
    \/ OpenDataset(v) \/ WriteDataset(v) \/ Conclude(v) \/ FailRun(v)

Next ==
    \/ \E e \in Editors : EditStep(e)
    \/ \E v \in Evaluations : RunStep(v)
    \/ Tick

Spec == Init /\ [][Next]_vars

----------------------------------------------------------------------------
\* What others are told

\* Mutant of Readiness: a report may be of any age.
ReadinessAtAnyAge ==
    IF report.state \in {"empty", "garbled"} \/ dataset.state \in {"empty", "garbled"} THEN "raises"
    ELSE IF report.state = "absent" THEN "evaluation_missing"
    ELSE IF report.value.legacy THEN "evaluation_timestamp_missing"
    ELSE IF ~report.value.passed THEN "evaluation_gate_failed"
    ELSE "evaluation_gate_passed"

\* assess_deployment_readiness over latest, which raises when a file does not parse.
Readiness ==
    IF report.state \in {"empty", "garbled"} \/ dataset.state \in {"empty", "garbled"} THEN "raises"
    ELSE IF report.state = "absent" THEN "evaluation_missing"
    ELSE IF report.value.legacy THEN "evaluation_timestamp_missing"
    ELSE IF clock - report.value.at > MaxAge THEN "evaluation_stale"
    ELSE IF ~report.value.passed THEN "evaluation_gate_failed"
    ELSE "evaluation_gate_passed"

\* _latest_manual_sample_usage
UsedSigs ==
    IF dataset.state = "whole"
    THEN {dataset.value[i].sig : i \in Manual(dataset.value)} ELSE {}

\* _manual_sample_exclusion_reason
Reason(x) ==
    IF x.sig \in UsedSigs THEN "used"
    ELSE IF report.state # "whole" \/ report.value.legacy THEN "no_recent_evaluation"
    ELSE IF x.changed > report.value.at THEN "changed_after_latest_evaluation"
    ELSE IF report.value.total > report.value.used THEN "excluded_by_sample_limit"
    ELSE "not_in_latest_dataset"

----------------------------------------------------------------------------
\* Properties

\* The gate is open only on the word of an evaluation that has passed with enough
\* samples and is recent, whoever writes, dies or fails at the same time: neither a
\* report of an older version nor what is left of two reports opens it.  One that has
\* failed its gate closes it until another, that has passed, opens the report after it;
\* the order is that of the writing, and the stamp of the one that has passed may be the
\* earlier, of before the callback.
ReadyIsEarned ==
    Readiness = "evaluation_gate_passed" =>
        LET v == report.value.by
        IN /\ run[v].passed /\ Len(run[v].entries) >= MinSize
           /\ run[v].at + MaxAge >= clock
           /\ \A w \in Evaluations \ {v} :
                 run[w].pc \in {"history", "done"} /\ ~run[w].passed /\ ~clashed
                 => w \in before[v]

\* No sample twice, no more than there is room for and no room left while there are
\* others; all manual samples if that is asked for, and otherwise no more than their
\* share while generated ones are left.
IsFair(r) ==
    LET generated == {r.generated[i] : i \in DOMAIN r.generated}
        manual == Sigs(r.manual)
        all == manual \union generated
    IN /\ Cardinality(Sigs(r.entries)) = Len(r.entries)
       /\ Len(r.entries) <= Limit(r.setting, r.manual)
       /\ Len(r.entries) < Limit(r.setting, r.manual) => Sigs(r.entries) = all
       /\ r.setting.all => manual \subseteq Sigs(r.entries)
       /\ Used(r.entries) > Target(r.setting, r.manual) => generated \subseteq Sigs(r.entries)

\* What an administrator has been told is saved stays in the file and counts: an
\* evaluation that takes all samples takes it, as long as no two requests overlap,
\* none dies on the open file, the evaluation does not read it then, and no two
\* samples share an id (as after saving again what has been changed).
SavedCounts ==
    /\ ~raced /\ ~doubled /\ (\A e \in Editors : edit[e].pc # "open") => owed \subseteq Sigs(Load)
    /\ \A v \in Evaluations :
          run[v].pc # "idle" =>
              /\ IsFair(run[v])
              /\ run[v].sure /\ run[v].setting.all => run[v].owed \subseteq Sigs(run[v].entries)

\* What the list says of a sample the page has sent is true of the latest evaluation,
\* while nobody writes and no two evaluations have written at once: one listed as used is
\* among those it has scored, and one that was saved when it read the samples is never
\* called missing without a reason: it has been changed since, or there was no room.
ListingIsTrue ==
    ~clashed /\ (\A v \in Evaluations : ~Writing(v)) /\ report.state = "whole"
    /\ ~report.value.legacy =>
        LET v == report.value.by
        IN \A i \in DOMAIN Load :
              LET x == Load[i]
              IN /\ Reason(x) = "used" => [sig |-> x.sig, manual |-> TRUE] \in Range(run[v].entries)
                 /\ run[v].sure /\ x.sig \in run[v].owed =>
                       Reason(x) \in {"used", "changed_after_latest_evaluation",
                                     "excluded_by_sample_limit"}
=============================================================================
