------------------------------- MODULE MCVocab -------------------------------
(* The vocabulary packages share no variable: one run explores each by itself  *)
(* while the others stay at rest; the package is chosen in Init.               *)
EXTENDS ConsentTokens, Certificates, WaitingPeriods, Charters, WorkflowRuns,
        PolicyReleases, EvidenceChain, EvidencePackets

CONSTANTS Parts, k1, perf, conduct

SameChain == [c \in Callers |-> {k1}]
MCValidity == [t \in {perf, conduct} |-> IF t = perf THEN 1 ELSE 2]

\* Bounds of the evidence part with the most actions
LinkEvidence == 2
LinkEntries == 3

VARIABLE part

MCInit ==
    /\ ConsentInit /\ CertInit /\ WaitInit /\ CharterInit /\ WorkflowInit /\ PolicyInit
    /\ Init /\ PacketInit
    /\ part \in Parts

allVars == <<consentVars, certVars, waitVars, charterVars, workflowVars, policyVars, vars, packetVars, part>>

VocabNext ==
    /\ \/ /\ part = "consent" /\ ConsentNext
          /\ UNCHANGED <<certVars, waitVars, charterVars, workflowVars, policyVars>>
       \/ /\ \/ part = "certificates" /\ CertificateNext
             \/ part = "records" /\ RecordNext
          /\ UNCHANGED <<consentVars, waitVars, charterVars, workflowVars, policyVars>>
       \/ /\ \/ part = "waiting" /\ WaitNext
             \/ part = "service_clock" /\ ServiceAlone
             \/ part = "phrase_clock" /\ PhrasesAlone
          /\ UNCHANGED <<consentVars, certVars, charterVars, workflowVars, policyVars>>
       \/ /\ \/ part = "charters" /\ CharterNext
             \/ part = "bindings" /\ BindingNext
          /\ UNCHANGED <<consentVars, certVars, waitVars, workflowVars, policyVars>>
       \/ /\ part = "workflow" /\ WorkflowNext
          /\ UNCHANGED <<consentVars, certVars, waitVars, charterVars, policyVars>>
       \/ /\ \/ part = "policies" /\ PolicyNext
             \/ part = "publishing" /\ PublishNext
          /\ UNCHANGED <<consentVars, certVars, waitVars, charterVars, workflowVars>>
    /\ UNCHANGED <<vars, packetVars, part>>

EvidenceNext ==
    /\ \/ part = "storage" /\ (EmitNext \/ StorageNext) /\ UNCHANGED packetVars
       \/ part = "links" /\ (EmitNext \/ LinkNext) /\ Len(evidence') <= LinkEvidence
          /\ Len(entries') <= LinkEntries /\ UNCHANGED packetVars
       \/ part = "packets" /\ PacketNext /\ UNCHANGED vars
    /\ UNCHANGED <<consentVars, certVars, waitVars, charterVars, workflowVars, policyVars, part>>

MCNext == VocabNext \/ EvidenceNext

MCSpec == MCInit /\ [][MCNext]_allVars

OnClock == part \in {"service_clock", "phrase_clock"}

Clock == INSTANCE PausableClock WITH
    Days <- WaitDays,
    remaining <- IF OnClock THEN Remaining ELSE WaitDays,
    running <- OnClock /\ IsRunning,
    over <- OnClock /\ IsOver

\* Each of the two implementations of the waiting period, by itself and one request at a time,
\* is a clock that runs down only while it is not paused: check, pause and resume map to steps
\* of PausableClock, and the period is marked elapsed only when no time remains on it.
WaitingIsPausableClock == Clock!Spec
=============================================================================
