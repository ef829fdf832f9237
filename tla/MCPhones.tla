------------------------------ MODULE MCPhones ------------------------------
(* The three kinds of door phone, which do not interact, in one run.        *)
EXTENDS PhoneTask, PhoneSignal, PhoneFifo

VARIABLE system

OfQueues(A) == system = "queues" /\ A /\ UNCHANGED <<system, signalVars, fifoVars>>
OfSignals(A) == system = "signals" /\ A /\ UNCHANGED <<system, vars, fifoVars>>
OfPipes(A) == system = "pipes" /\ A /\ UNCHANGED <<system, vars, signalVars>>

AllInit == /\ system \in {"queues", "signals", "pipes"}
           /\ Init /\ SignalInit /\ FifoInit
           /\ system # "pipes" => pair = CHOOSE p \in Pairs : TRUE
AllNext == OfQueues(Next) \/ OfSignals(SignalNext) \/ OfPipes(FifoNext)
allVars == <<system, vars, signalVars, fifoVars>>

AllSpec == /\ AllInit /\ [][AllNext]_allVars
           /\ WF_allVars(OfQueues(PhoneStep)) /\ WF_allVars(OfQueues(UiStep))
           /\ WF_allVars(OfPipes(PhoneLoop)) /\ WF_allVars(OfPipes(BoardLoop))
=============================================================================
