------------------------ MODULE SemaphoreReExecution ------------------------
(***************************************************************************)
(* The same blocks, either on the machine, or while the test is generated: *)
(* then endLinearBlock has the simulator execute the block it has just     *)
(* closed by ReExecution requests, each of at most maxReExeInstr           *)
(* instructions, until the PC is the end of the block.  A request is not   *)
(* interrupted; between two requests other threads have their turns.       *)
(***************************************************************************)
EXTENDS GenSemaphore

CONSTANTS
    MaxAcquire,     \* max_re_execution_instructions of the acquire block
    MaxRelease,     \* and of the release block
    NoHart          \* not a hart

ASSUME NoHartAssumption == NoHart \notin Harts

VARIABLES
    generating,     \* the test is generated; else the harts run it
    turn,           \* the hart whose request is served, or NoHart
    re_exe_length   \* the instructions that request has executed

reVars == <<vars, generating, turn, re_exe_length>>

InBlock(h) == block[h] \in {"acquire", "release"}

maxReExeInstr(h) == IF block[h] = "acquire" THEN MaxAcquire ELSE MaxRelease

ReInit == Init /\ generating \in BOOLEAN /\ turn = NoHart /\ re_exe_length = 0

\* Code outside the two blocks.
Generate(h) ==
    /\ turn = NoHart
    /\ GenSemaphore(h) \/ EnterAcquire(h) \/ EnterRelease(h)
    /\ UNCHANGED <<turn, re_exe_length>>

\* Name_Variant is a wrong variant of Name, which a property must refute.
ReExecution_NoReset(h) ==
    /\ turn = NoHart
    /\ InBlock(h)
    /\ turn' = h
    /\ UNCHANGED <<vars, re_exe_length>>

\* endLinearBlock requests a re-execution; its "Address" is the start of the
\* block each time.  GenInstructionAgent::ReExecute sets the generator's PC to
\* it, but the simulator executes at its own PC, which is where it stopped.
ReExecution(h) ==
    /\ turn = NoHart
    /\ InBlock(h)
    /\ turn' = h
    /\ re_exe_length' = 0
    /\ UNCHANGED vars

\* One instruction of the request: it ends after the block, where no
\* instruction is initialized, or at its limit.  The simulator's SC fails
\* only without a reservation.
Step(h) ==
    /\ turn = h
    /\ Instruction(h)
    /\ AtStore(h) /\ h \in reserved => statusReg'[h] = 0
    /\ re_exe_length' = re_exe_length + 1
    /\ turn' = IF block'[h] # block[h] \/ re_exe_length' >= maxReExeInstr(h)
               THEN NoHart ELSE turn

GenerateNext ==
    /\ generating
    /\ \E h \in Harts : Generate(h) \/ ReExecution(h) \/ Step(h)
    /\ UNCHANGED generating

Running(action) == ~generating /\ action /\ UNCHANGED <<generating, turn, re_exe_length>>

ReNext == GenerateNext \/ Running(Next)

\* On the machine every hart goes on executing, a critical section ends, and
\* a store conditional that is possible again and again succeeds in the end:
\* the eventual success that the architecture promises such a short loop.
\* Nothing is assumed of the generation.
ReFairness ==
    \A h \in Harts :
        /\ WF_reVars(Running(EnterRelease(h)))
        /\ WF_reVars(Running(Instruction(h)))
        /\ SF_reVars(Running(StoreSucceeds(h)))

ReSpec == ReInit /\ [][ReNext]_reVars /\ ReFairness
-----------------------------------------------------------------------------
\* When some hart wants to enter, some hart enters: the harts do not block
\* one another, neither by lost reservations nor at a counter that stays zero.
Progress ==
    (~generating /\ initial > 0 /\ \E h \in Harts : block[h] = "acquire")
        ~> (\E h \in Harts : block[h] = "critical")

\* Wherever in the block the thread resumes, a request that finds the semaphore
\* free, or that releases it, gets through the whole block before its limit, even
\* if it must start over once: the limits that GenSemaphoreRISCV passes to
\* GenInstructionAgent::ReExecute are large enough.
OneRequestSuffices ==
    [][\A h \in Harts :
          turn = h /\ turn' = NoHart /\ (mem > 0 \/ block[h] = "release" \/ Holds(h))
              => block'[h] # block[h]]_reVars
=============================================================================
