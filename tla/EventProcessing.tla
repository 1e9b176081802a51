-------------------------- MODULE EventProcessing --------------------------
(***************************************************************************)
(* LivePipeline::process (cpp/pipeline/live_pipeline.cpp): an event goes to   *)
(* the book of its instrument and, unless the book rejects it, to the five   *)
(* rule detectors in the order of make_five_detectors.  The sixth, which     *)
(* only submits a request, is MlScoring.  The events come from Surveillance  *)
(* or from SimulatedSession.                                                 *)
(***************************************************************************)
EXTENDS Integers, Sequences, FiniteSets, SequencesExt, FiniteSetsExt

CONSTANTS
  Accounts, Owners, NoOwner, NoAccount, Instruments, NoPrice,
  Slow, DensityWindow, MinMove, Saturation, BonusPercent, AlertPercent,
  CloseTime, WindowDuration, ConcentrationPercent, MinAccountQty, MinTotalQty,
  Lookback, MinLarge, RatioPercent,
  Unit, ZScore, MinSamples

VARIABLES
  registry,   \* the AccountRegistry the pipeline was given
  accepted,   \* the events the books accepted, in order
  books,      \* books_: the resting orders of every instrument
  sequence,   \* sequence_ of every book
  skipped,    \* inconsistent_events_skipped_
  alerts,     \* the alerts process() returned, in order
  tracked, counts, ambient, close, recent, stats   \* the detectors

detectorVars == <<tracked, counts, ambient, close, recent, stats>>
processVars == <<registry, accepted, books, sequence, skipped, alerts, detectorVars>>

Spoofing == INSTANCE SpoofingLayering
Closing == INSTANCE MarkingTheClose
Fronting == INSTANCE FrontRunning
Baseline == INSTANCE BaselineDetectors

ASSUME DetectorAssumption ==
  /\ Spoofing!SpoofConfigured
  /\ Closing!CloseConfigured
  /\ Fronting!FrontConfigured
  /\ Baseline!BaselineConfigured

ProcessTypeOK ==
  /\ sequence \in [Instruments -> Nat]
  /\ skipped \in Nat
  /\ Spoofing!SpoofTypeOK
  /\ Closing!CloseTypeOK

ProcessInit ==
  /\ accepted = <<>>
  /\ books = [i \in Instruments |-> {}]
  /\ sequence = [i \in Instruments |-> 0]
  /\ skipped = 0
  /\ alerts = <<>>
  /\ Spoofing!SpoofInit /\ Closing!CloseInit /\ Fronting!FrontInit /\ Baseline!BaselineInit

\* A rejected event is counted and reaches no detector.
Skip(event) ==
  /\ Spoofing!Rejects(books[event.instrument], event)
  /\ skipped' = skipped + 1
  /\ UNCHANGED <<accepted, alerts, detectorVars>>

Evaluate(event, book, at) ==
  /\ ~Spoofing!Rejects(books[event.instrument], event)
  /\ accepted' = Append(accepted, event)
  /\ Spoofing!EvaluateSpoofing(book, event)
  /\ Closing!EvaluateClose(registry, event, at)
  /\ Fronting!EvaluateFront(event)
  /\ Baseline!EvaluateBaseline(event)
  /\ alerts' = alerts \o Baseline!WashAlerts(registry, event, at)
                      \o Spoofing!SpoofAlerts(book, event, at)
                      \o Closing!CloseAlerts(registry, event, at)
                      \o Fronting!FrontAlerts(registry, event, at)
                      \o Baseline!StatAlerts(event, at)
  /\ UNCHANGED skipped

Process(event) ==
  LET i == event.instrument
      book == Spoofing!Applied(books[i], event)
      at == sequence[i] + 1
  IN /\ books' = [books EXCEPT ![i] = book]
     /\ sequence' = [sequence EXCEPT ![i] = at]
     /\ Skip(event) \/ Evaluate(event, book, at)
     /\ UNCHANGED registry
=============================================================================
