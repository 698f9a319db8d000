---------------------------------- MODULE Run ----------------------------------
(***************************************************************************)
(* The run command: KrnSetupRun, KrnRunPhases, SingleRun and MultiRun of   *)
(* src/KERNEL/krn_run.c on a universe whose topology is sound and whose    *)
(* galaxies have been ordered by Schedule().  SingleRun and MultiRun call  *)
(* themselves for an inner galaxy: their activation records are the frames *)
(* of the variable stack, the running one first.                           *)
(*                                                                         *)
(* A buffer is the number of samples it holds: module Buffer models the    *)
(* rest of it.  A star is the loop that all blocks of src/BLOCKS share:    *)
(* take a sample from every input while MIN_AVAIL() lasts, add rate[s]     *)
(* samples to every output, return 99 when an output is full.              *)
(***************************************************************************)
EXTENDS Integers, Sequences, FiniteSets, FiniteSetsExt

CONSTANTS
    Star, Galaxy, Universe,
    Total,          \* Total[s]: the samples a source has (its num_of_samples)
    Topologies,     \* the universes: records [children, links, delay,
                    \* wired, rate]
    MayFail,        \* the stars that may return an error of their own
    NumberSamples,  \* krn_numberSamples, what a source offers per visit
    Horizon,        \* rounds of the reference definition Expected
    Capacity,       \* samples a buffer takes before IncWrPtr() refuses
    MaxRuns         \* bound of the model: run commands on one topology

ASSUME StarAssumption == Star \cap Galaxy = {} /\ Universe \in Galaxy
ASSUME TotalAssumption == Total \in [Star -> Nat]
ASSUME FailAssumption == MayFail \subseteq Star
ASSUME BoundAssumption ==
    NumberSamples \in Nat \ {0} /\ Horizon \in Nat /\ Capacity \in Nat /\ MaxRuns \in Nat

Block == Star \cup (Galaxy \ {Universe})

(* What ConnectAllStars() and Schedule() hand over: every galaxy lists its *)
(* blocks, every link <<from, to>> has a buffer with dmin samples in it,   *)
(* and inputs[0] is set for the wired stars.  A pass of the loop of s adds *)
(* rate[s] samples to each output.  A star without any link is turned away *)
(* by its own USER_INIT code.                                              *)
ASSUME TopologyAssumption ==
    \A t \in Topologies :
      /\ t.children \in [Galaxy -> Seq(Block)] /\ t.children[Universe] # <<>>
      /\ \A g \in Galaxy : \A i \in DOMAIN t.children[g] :
           t.children[g][i] \in Galaxy => t.children[t.children[g][i]] # <<>>
      /\ t.links \subseteq Star \X Star
      /\ \A s \in Star : \E l \in t.links : s \in {l[1], l[2]}
      /\ t.delay \in [t.links -> Nat] /\ t.rate \in [Star -> Nat \ {0}]
      /\ {l[2] : l \in t.links} \subseteq t.wired /\ t.wired \subseteq Star

(* The sibling lists form a tree: module Siblings.  No block is listed     *)
(* twice, and a set that holds the blocks of the universe and, with any    *)
(* galaxy, the blocks of that galaxy holds every star.                     *)
ASSUME TreeAssumption ==
    \A t \in Topologies :
      /\ \A g, h \in Galaxy : \A i \in DOMAIN t.children[g], j \in DOMAIN t.children[h] :
           t.children[g][i] = t.children[h][j] => g = h /\ i = j
      /\ \A B \in SUBSET Block :
           (\A g \in {Universe} \cup (B \cap Galaxy) :
              \A i \in DOMAIN t.children[g] : t.children[g][i] \in B)
           => Star \subseteq B

Phases == <<"SYSTEM_INIT", "USER_INIT", "MAIN_CODE", "WRAPUP">>
Main == 3           \* MAIN_CODE in capsim.h

VARIABLES
    topology,
    phase,          \* 1..4: the phase of the run; 0: no run
    stack,          \* the calls of SingleRun or MultiRun, innermost first
    err,            \* the value the last run has returned
    active,         \* the flag of krn_buffer.c
    opened,         \* the links whose buffer has been initialised
    stored,         \* cells_stored of the buffers
    fired,          \* per star, passes through its loop (samples_out)
    reached,        \* per star, the last phase it was called for in this run
    runs

vars == <<topology, phase, stack, err, active, opened, stored, fired, reached, runs>>

Running == phase # 0
Top == Head(stack)
Children(g) == topology.children[g]
InLinks(s)  == {l \in topology.links : l[2] = s}
OutLinks(s) == {l \in topology.links : l[1] = s}

Entered(g) == [gal |-> g, pos |-> 1, active_block |-> FALSE,
               active_galaxy |-> FALSE, first_pass |-> TRUE]

AtBlock == stack # <<>> /\ Top.pos <= Len(Children(Top.gal))
AtEnd   == stack # <<>> /\ Top.pos > Len(Children(Top.gal))
Current == Children(Top.gal)[Top.pos]

(* The running frame after its current block, which was active or not. *)
After(frame, activity) ==
    [frame EXCEPT !.pos = @ + 1, !.active_block = @ \/ activity]

(* BufferLength() of a link, which initialises the buffer if need be. *)
Length(l) == IF l \in opened THEN stored[l] ELSE topology.delay[l]

(* A mistake in it: the fullest input counts. *)
MostAvail(s) == Max({Length(l) : l \in InLinks(s)})

MinAvail(s) == Min({Length(l) : l \in InLinks(s)})

Least(a, b) == IF a <= b THEN a ELSE b

(* How often s goes through its loop when it is called. *)
Passes(s) == IF InLinks(s) = {} THEN Least(NumberSamples, Total[s] - fired[s])
             ELSE MinAvail(s)

Taken(s, l) == IF l \in InLinks(s) THEN Passes(s) ELSE 0
Added(s, l) == IF l \in OutLinks(s) THEN topology.rate[s] * Passes(s) ELSE 0

(* The buffers s accesses: all its inputs, its outputs if it writes any. *)
Touched(s) == InLinks(s) \cup {l \in OutLinks(s) : Added(s, l) > 0}

(* IncWrPtr() refuses a sample of s. *)
Overflows(s) == \E l \in OutLinks(s) :
    Added(s, l) > 0 /\ Length(l) - Taken(s, l) + Added(s, l) > Capacity

(* It does so after s has moved another sample or initialised a buffer.    *)
MovedBefore(s) == Overflows(s) /\
    \E l \in Touched(s) : l \notin opened \/ l \in InLinks(s) \/ Length(l) < Capacity

(* MultiRun calls a star that has an input, or for the first time in a     *)
(* visit; a mistake: every star in every pass.                             *)
DueAlways(s) == TRUE
Due(s) == Top.first_pass \/ s \in topology.wired

(* The run is over and the command returns e; a mistake: only the          *)
(* innermost call returns.                                                 *)
InnermostReturns(e) ==
    /\ phase' = 0
    /\ stack' = Tail(stack)
    /\ err' = e

RunReturns(e) ==
    /\ phase' = 0
    /\ stack' = <<>>
    /\ err' = e

-----------------------------------------------------------------------------
Init ==
    /\ topology \in Topologies
    /\ phase = 0
    /\ stack = <<>>
    /\ err = 0
    /\ active = FALSE
    /\ opened = {}
    /\ stored = [l \in topology.links |-> 0]
    /\ fired = [s \in Star |-> 0]
    /\ reached = [s \in Star |-> 0]
    /\ runs = 0

(* InitAll() drops buffers and states of the run before; the first call of *)
(* SingleRun follows.  The flag active is nobody's to reset.               *)
KrnSetupRun ==
    /\ ~Running
    /\ runs < MaxRuns
    /\ runs' = runs + 1
    /\ opened' = {}
    /\ stored' = [l \in topology.links |-> 0]
    /\ fired' = [s \in Star |-> 0]
    /\ reached' = [s \in Star |-> 0]
    /\ phase' = 1
    /\ stack' = <<Entered(Universe)>>
    /\ err' = 0
    /\ UNCHANGED <<topology, active>>

-----------------------------------------------------------------------------
(* SingleRun and MultiRun call themselves for a galaxy. *)
EnterGalaxy ==
    /\ AtBlock /\ Current \in Galaxy
    /\ stack' = <<Entered(Current)>> \o stack
    /\ UNCHANGED <<topology, phase, err, active, opened, stored, fired, reached, runs>>

(* SingleRun calls a star for an initialisation or for the wrapup. *)
SingleCall(s) ==
    /\ phase \notin {0, Main}
    /\ AtBlock /\ Current = s
    /\ reached' = [reached EXCEPT ![s] = phase]
    /\ \/ /\ stack' = [stack EXCEPT ![1] = After(@, FALSE)]
          /\ UNCHANGED <<phase, err>>
       \/ /\ s \in MayFail
          /\ RunReturns(1001)
    /\ UNCHANGED <<topology, active, opened, stored, fired, runs>>

(* Mistakes at the end of a galaxy: the phase ends with an inner one, and  *)
(* the galaxy around it calls it again.                                    *)
SingleReturnEarly ==
    /\ phase \notin {0, Main}
    /\ AtEnd
    /\ IF phase < Len(Phases)
       THEN /\ phase' = phase + 1
            /\ stack' = <<Entered(Universe)>>
            /\ UNCHANGED err
       ELSE RunReturns(0)
    /\ UNCHANGED <<topology, active, opened, stored, fired, reached, runs>>

SingleReturnAgain ==
    /\ phase \notin {0, Main}
    /\ AtEnd
    /\ IF Len(stack) > 1
       THEN /\ stack' = Tail(stack)
            /\ UNCHANGED <<phase, err>>
       ELSE IF phase < Len(Phases)
       THEN /\ phase' = phase + 1
            /\ stack' = <<Entered(Universe)>>
            /\ UNCHANGED err
       ELSE RunReturns(0)
    /\ UNCHANGED <<topology, active, opened, stored, fired, reached, runs>>

(* SingleRun is through with a galaxy; with the universe, the next phase   *)
(* begins or the run is over.                                              *)
SingleReturn ==
    /\ phase \notin {0, Main}
    /\ AtEnd
    /\ IF Len(stack) > 1
       THEN /\ stack' = [Tail(stack) EXCEPT ![1] = After(@, FALSE)]
            /\ UNCHANGED <<phase, err>>
       ELSE IF phase < Len(Phases)
       THEN /\ phase' = phase + 1
            /\ stack' = <<Entered(Universe)>>
            /\ UNCHANGED err
       ELSE RunReturns(0)
    /\ UNCHANGED <<topology, active, opened, stored, fired, reached, runs>>

-----------------------------------------------------------------------------
(* MultiRun passes over a source star after the first pass. *)
SkipSource(s) ==
    /\ phase = Main
    /\ AtBlock /\ Current = s
    /\ ~Due(s)
    /\ stack' = [stack EXCEPT ![1] = After(@, FALSE)]
    /\ UNCHANGED <<topology, phase, err, active, opened, stored, fired, reached, runs>>

(* MultiRun calls a star and asks BufferActive(), which resets the flag.   *)
(* A star that fails or finds an output full ends the run: the flag stays  *)
(* set, and what it leaves in the buffers is gone with the next InitAll(). *)
MainCall(s) ==
    /\ phase = Main
    /\ AtBlock /\ Current = s
    /\ Due(s)
    /\ reached' = [reached EXCEPT ![s] = Main]
    /\ \/ /\ ~Overflows(s)
          /\ opened' = opened \cup Touched(s)
          /\ stored' = [l \in topology.links |->
                          IF l \in Touched(s)
                          THEN Length(l) - Taken(s, l) + Added(s, l)
                          ELSE stored[l]]
          /\ fired' = [fired EXCEPT ![s] = @ + Passes(s)]
          /\ LET moved == \E l \in Touched(s) :
                             l \notin opened \/ Taken(s, l) + Added(s, l) > 0
             IN stack' = [stack EXCEPT ![1] = After(@, active \/ moved)]
          /\ active' = FALSE
          /\ UNCHANGED <<phase, err>>
       \/ /\ Overflows(s) \/ s \in MayFail
          /\ active' = (active \/ MovedBefore(s))
          /\ RunReturns(IF Overflows(s) THEN 1099 ELSE 1001)
          /\ UNCHANGED <<opened, stored, fired>>
    /\ UNCHANGED <<topology, runs>>

(* A mistake: the activity of the last pass is not forgotten. *)
NextPassStale ==
    /\ phase = Main
    /\ AtEnd /\ Top.active_block
    /\ stack' = [stack EXCEPT ![1] = [@ EXCEPT !.pos = 1, !.active_galaxy = TRUE,
                                               !.first_pass = FALSE]]
    /\ UNCHANGED <<topology, phase, err, active, opened, stored, fired, reached, runs>>

(* Another pass through the galaxy after one in which a block was active. *)
NextPass ==
    /\ phase = Main
    /\ AtEnd /\ Top.active_block
    /\ stack' = [stack EXCEPT ![1] = [@ EXCEPT !.pos = 1, !.active_block = FALSE,
                                               !.active_galaxy = TRUE,
                                               !.first_pass = FALSE]]
    /\ UNCHANGED <<topology, phase, err, active, opened, stored, fired, reached, runs>>

(* A mistake at the end of a visit: a galaxy does not hear of the activity *)
(* inside it.                                                              *)
MultiReturnDeaf ==
    /\ phase = Main
    /\ AtEnd /\ ~Top.active_block
    /\ IF Len(stack) > 1
       THEN /\ stack' = [Tail(stack) EXCEPT ![1] = After(@, FALSE)]
            /\ UNCHANGED phase
       ELSE /\ phase' = IF Top.active_galaxy THEN Main ELSE Main + 1
            /\ stack' = <<Entered(Universe)>>
    /\ UNCHANGED <<topology, err, active, opened, stored, fired, reached, runs>>

(* A pass without activity ends the visit: the galaxy around it learns     *)
(* whether there was any before, and KrnRunPhases visits the universe      *)
(* until there was none.                                                   *)
MultiReturn ==
    /\ phase = Main
    /\ AtEnd /\ ~Top.active_block
    /\ IF Len(stack) > 1
       THEN /\ stack' = [Tail(stack) EXCEPT ![1] = After(@, Top.active_galaxy)]
            /\ UNCHANGED phase
       ELSE /\ phase' = IF Top.active_galaxy THEN Main ELSE Main + 1
            /\ stack' = <<Entered(Universe)>>
    /\ UNCHANGED <<topology, err, active, opened, stored, fired, reached, runs>>

Controller ==
    \/ EnterGalaxy \/ SingleReturn \/ NextPass \/ MultiReturn
    \/ \E s \in Star : SingleCall(s) \/ SkipSource(s) \/ MainCall(s)

Next == KrnSetupRun \/ Controller

Spec == Init /\ [][Next]_vars

(* One thread executes the run; nothing makes the user type another. *)
FairSpec == Spec /\ WF_vars(Controller)

-----------------------------------------------------------------------------
TypeOK ==
    /\ topology \in Topologies
    /\ phase \in 0..Len(Phases)
    /\ stack \in Seq([gal : Galaxy, pos : Nat \ {0}, active_block : BOOLEAN,
                      active_galaxy : BOOLEAN, first_pass : BOOLEAN])
    /\ (stack = <<>>) = (phase = 0)
    /\ err \in {0, 1001, 1099}
    /\ active \in BOOLEAN
    /\ opened \subseteq topology.links
    /\ stored \in [topology.links -> Nat]
    /\ fired \in [Star -> Nat]
    /\ reached \in [Star -> 0..Len(Phases)]
    /\ runs \in 0..MaxRuns

(* The phases are in step all over the hierarchy: no star is called for a  *)
(* phase before every star of every galaxy has been called for the one     *)
(* before, and a run that returns zero has taken every star through all.   *)
PhasesInStep ==
    /\ Running => \A s \in Star : reached[s] \in {phase - 1, phase}
    /\ ~Running /\ runs > 0 /\ err = 0 => \A s \in Star : reached[s] = Len(Phases)

(* "Each block is executed precisely once" by SingleRun.                   *)
ExecutedOnce == [][\A s \in Star : SingleCall(s) => reached[s] = phase - 1]_vars

(* What the controller does is a run of the network, and the run ends only *)
(* when no star can fire any more: wherever the stars sit in the hierarchy *)
(* and in whatever order they are visited.                                 *)
Status == IF runs = 0 THEN "idle"
          ELSE IF phase \in 1..Main THEN "running"
          ELSE IF err = 0 THEN "done" ELSE "failed"

DF == INSTANCE Dataflow WITH Networks <- Topologies,
                             net <- topology, status <- Status

ImplementsDataflow == DF!Spec

(* The bound Horizon: its rounds settle Expected on every universe, which  *)
(* leaves out a loop of stars that multiplies samples without end.         *)
ASSUME HorizonAssumption ==
    \A t \in Topologies : DF!Supply(t, DF!ExpectedOf(t)) = DF!ExpectedOf(t)

(* A run that gets to the wrapup has fired every star as often as the      *)
(* topology calls for: samples are neither stranded in a buffer nor        *)
(* dependent on the hierarchy, the order or a run before.                  *)
Delivered == DF!Delivered

-----------------------------------------------------------------------------
IsFlat == \A i \in DOMAIN Children(Universe) : Children(Universe)[i] \in Star

(* The comment on MultiRun: "To control buffer lengths, source STAR blocks *)
(* (those with no inputs) are only executed once per visit of their host   *)
(* galaxy."  Where one sample taken makes one sample, all stars are to     *)
(* fire equally often and every source is a star without connection, the   *)
(* samples of one visit bound all buffers.                                 *)
EvenTraffic ==
    /\ \A s \in Star : topology.rate[s] = 1
    /\ topology.wired = {l[2] : l \in topology.links}
    /\ LET expected == DF!Expected
       IN \A s, t \in Star : expected[s] = expected[t]

WithinVisit == \A l \in topology.links : Length(l) <= topology.delay[l] + NumberSamples

BuffersControlled == IsFlat /\ EvenTraffic => WithinVisit

(* A run returns. *)
Terminates == Running ~> ~Running
=============================================================================
