--------------------------------- MODULE Flatten ---------------------------------
(***************************************************************************)
(* KrnSetupRun of src/KERNEL/krn_run.c with InitAll, and ConnectAllStars,  *)
(* ConnectTwoStars, FindInput and FindOutput of krn_connect.c: the         *)
(* connections of a hierarchy of galaxies become buffers between stars.    *)
(*                                                                         *)
(* A port is <<block, side, number>>.  A link leads from a block to a      *)
(* sibling, from an input of a galaxy to a block inside, or from a block   *)
(* inside to an output of its galaxy: what the blocks have in inputs[] and *)
(* outputs[].  That both ends of a connection agree and that a terminal is *)
(* used once is what module Topology shows.                                *)
(***************************************************************************)
EXTENDS Naturals, Sequences, FiniteSets, Functions

CONSTANTS
    Star, Galaxy,
    Universe,       \* the outermost galaxy
    Trees,          \* the hierarchies: the sibling list of every galaxy
    IO_BUFFERS,     \* ports per block and side
    MaxLinks,       \* bound of the model: links at a time
    MaxRuns         \* bound of the model: run commands

Block == Star \cup (Galaxy \ {Universe})
Number == 0..(IO_BUFFERS - 1)

ASSUME BlockAssumption == Star \cap Galaxy = {} /\ Universe \in Galaxy
ASSUME FiniteAssumption == IsFiniteSet(Galaxy)

(* The sibling lists form a tree (module Siblings): no block is in two     *)
(* places, a galaxy is one deeper than the galaxy around it, and one with  *)
(* blocks is the universe or a block itself.                               *)
ASSUME TreeAssumption ==
    \A t \in Trees :
      /\ DOMAIN t = Galaxy /\ \A g \in Galaxy : t[g] \in Seq(Block)
      /\ \A g, h \in Galaxy : \A i \in DOMAIN t[g], j \in DOMAIN t[h] :
           t[g][i] = t[h][j] => g = h /\ i = j
      /\ \E depth \in [Galaxy -> 0..(Cardinality(Galaxy) - 1)] :
           \A g \in Galaxy : \A i \in DOMAIN t[g] :
             t[g][i] \in Galaxy => depth[t[g][i]] = depth[g] + 1
      /\ \A g \in Galaxy \ {Universe} :
           t[g] # <<>> => \E h \in Galaxy : g \in Range(t[h])

ASSUME BoundAssumption == IO_BUFFERS \in Nat \ {0} /\ {MaxLinks, MaxRuns} \subseteq Nat

VARIABLES
    children,       \* the sibling list of every galaxy
    links,
    stack,          \* the calls of ConnectAllStars, innermost first
    err,            \* what KrnSetupRun has returned
    done,           \* it has returned, and nothing was edited since
    inBuffer, outBuffer,            \* inBuffer_P and outBuffer_P of the stars
    numberIn, numberOut,            \* numberInBuffers and numberOutBuffers
    created,        \* the buffers there are, in krn_bufferPointerMemory: 1..created
    runs

buffers == <<inBuffer, outBuffer, numberIn, numberOut, created>>
vars == <<children, links, stack, err, done, buffers, runs>>

NULL == 0

Running == stack # <<>>
Top == Head(stack)
AtBlock == Running /\ Top.pos <= Len(children[Top.gal])
Current == children[Top.gal][Top.pos]

(* inputs[n] # NULL and outputs[n] # NULL of block b. *)
Input(b, n)  == \E l \in links : l[2] = <<b, "in", n>>
Output(b, n) == \E l \in links : l[1] = <<b, "out", n>>

(* No port in use has a free one in front of it; a mistake: of the         *)
(* outputs only.                                                           *)
Gapless(Used(_, _), b) == \A n \in Number \ {0} : Used(b, n) => Used(b, n - 1)
ContiguousOut(b) == Gapless(Output, b)

Contiguous(b) == Gapless(Input, b) /\ Gapless(Output, b)

(* FindInput and FindOutput: from a port of a galaxy to the one inside     *)
(* that is linked to it; to itself, if there is none.                      *)
FindInput(port) ==
    IF \E l \in links : l[1] = port THEN (CHOOSE l \in links : l[1] = port)[2] ELSE port
FindOutput(port) ==
    IF \E l \in links : l[2] = port THEN (CHOOSE l \in links : l[2] = port)[1] ELSE port

AllTheWay(Find(_), port) ==
    LET hop[k \in 0..Cardinality(Galaxy)] == IF k = 0 THEN port ELSE Find(hop[k - 1])
    IN  hop[Cardinality(Galaxy)]

(* The loops of ConnectTwoStars; mistakes: a galaxy in a galaxy is not     *)
(* entered, the number of the outermost output is kept.                    *)
InnerInputOnce(port) == FindInput(port)
InnerOutputStale(port) ==
    LET inner == AllTheWay(FindOutput, port) IN <<inner[1], inner[2], port[3]>>

InnerInput(port) == AllTheWay(FindInput, port)
InnerOutput(port) == AllTheWay(FindOutput, port)

-----------------------------------------------------------------------------
NoBuffers == [s \in Star |-> [n \in Number |-> NULL]]
Zero == [s \in Star |-> 0]

Init ==
    /\ children \in Trees
    /\ links = {}
    /\ stack = <<>> /\ err = 0 /\ done = FALSE /\ runs = 0
    /\ inBuffer = NoBuffers /\ outBuffer = NoBuffers
    /\ numberIn = Zero /\ numberOut = Zero
    /\ created = 0

(* The links that can be made inside galaxy g. *)
Inside(g) ==
    LET blocks == Range(children[g])
        from == (blocks \X {"out"} \X Number) \cup ({g} \X {"in"} \X Number)
        to   == (blocks \X {"in"} \X Number) \cup ({g} \X {"out"} \X Number)
    IN  {l \in from \X to : ~(l[1][1] = g /\ l[2][1] = g)}

(* The user edits between runs; bound of the model: after the first run    *)
(* one edit, and none after the last.                                      *)
Edit ==
    /\ ~Running /\ runs < MaxRuns
    /\ runs = 0 \/ done
    /\ done' = FALSE
    /\ UNCHANGED <<children, stack, err, buffers, runs>>

Connect(g) ==
    /\ Edit
    /\ Cardinality(links) < MaxLinks
    /\ \E l \in Inside(g) :
         /\ \A k \in links : k[1] # l[1] /\ k[2] # l[2]
         /\ links' = links \cup {l}

Disconnect(l) == runs > 0 /\ Edit /\ links' = links \ {l}

(* The first blocks of inputs and outputs that have an end outside the     *)
(* universe: ports behind a free one are not looked at.                    *)
UniverseTerminals ==
    \E b \in Range(children[Universe]), l \in links :
       \/ /\ l[1][1] = Universe /\ l[2][1] = b
          /\ \A n \in 0..l[2][3] : Input(b, n)
       \/ /\ l[2][1] = Universe /\ l[1][1] = b
          /\ \A n \in 0..l[1][3] : Output(b, n)

Called(g) == [gal |-> g, pos |-> 1, port |-> 0]

(* A mistake: the counts are kept. *)
InitKeepingCounts ==
    /\ inBuffer' = NoBuffers /\ outBuffer' = NoBuffers
    /\ UNCHANGED <<numberIn, numberOut>>
    /\ created' = 0

(* InitAll with InitOne, behind the destruction of all buffers. *)
InitAll ==
    /\ inBuffer' = NoBuffers /\ outBuffer' = NoBuffers
    /\ numberIn' = Zero /\ numberOut' = Zero
    /\ created' = 0

Returns(code) == stack' = <<>> /\ err' = code /\ done' = TRUE

KrnSetupRun ==
    /\ ~Running /\ runs < MaxRuns
    /\ runs' = runs + 1
    /\ UNCHANGED <<children, links>>
    /\ \/ children[Universe] = <<>> /\ Returns(41) /\ UNCHANGED buffers
       \/ UniverseTerminals /\ Returns(42) /\ UNCHANGED buffers
       \/ /\ children[Universe] # <<>> /\ ~UniverseTerminals
          /\ InitAll
          /\ stack' = <<Called(Universe)>>
          /\ done' = FALSE /\ UNCHANGED err

Walk == UNCHANGED <<children, links, runs>>
Moved(frame) == stack' = <<frame>> \o Tail(stack) /\ UNCHANGED <<err, done>>

(* The test of ConnectAllStars at every block; of two gaps it reports the  *)
(* lower one.                                                              *)
NotContiguous ==
    /\ AtBlock /\ Top.port = 0 /\ ~Contiguous(Current)
    /\ \E n \in Number \ {0} :
         LET outGap(k) == Output(Current, k) /\ ~Output(Current, k - 1)
             inGap(k)  == Input(Current, k) /\ ~Input(Current, k - 1)
         IN  /\ outGap(n) \/ inGap(n)
             /\ \A k \in 1..(n - 1) : ~outGap(k) /\ ~inGap(k)
             /\ Returns(IF outGap(n) THEN 43 ELSE 44)
    /\ Walk /\ UNCHANGED buffers

AtPort == AtBlock /\ (Top.port = 0 => Contiguous(Current))
AtInput == AtPort /\ Top.port \in Number /\ Input(Current, Top.port)
Source == (CHOOSE l \in links : l[2] = <<Current, "in", Top.port>>)[1]
NextPort == Moved([Top EXCEPT !.port = @ + 1])

(* A link to the galaxy around: its other end is the outer galaxy's turn.  *)
FromTerminal ==
    /\ AtInput /\ Source[1] = Top.gal
    /\ IF Top.gal = Universe THEN Returns(42) ELSE NextPort
    /\ Walk /\ UNCHANGED buffers

(* FindInput and FindOutput at a galaxy in which nothing is linked.        *)
NotFound(galaxy, code) == Returns(IF children[galaxy] = <<>> THEN 41 ELSE code)

SetStarIn(s, n) ==
    /\ inBuffer' = [inBuffer EXCEPT ![s][n] = created']
    /\ numberIn' = [numberIn EXCEPT ![s] = @ + 1]
SetStarOut(s, n) ==
    /\ outBuffer' = [outBuffer EXCEPT ![s][n] = created']
    /\ numberOut' = [numberOut EXCEPT ![s] = @ + 1]

ConnectTwoStars ==
    /\ AtInput /\ Source[1] # Top.gal
    /\ Walk
    /\ LET in  == InnerInput(<<Current, "in", Top.port>>)
           out == InnerOutput(Source)
       IN  \/ in[1] \in Galaxy /\ NotFound(in[1], 46) /\ UNCHANGED buffers
           \/ /\ in[1] \in Star /\ out[1] \in Galaxy
              /\ NotFound(out[1], 45) /\ UNCHANGED buffers
           \/ /\ in[1] \in Star /\ out[1] \in Star
              /\ created' = created + 1
              /\ SetStarOut(out[1], out[3])
              /\ SetStarIn(in[1], in[3])
              /\ NextPort

PortsDone == AtPort /\ ~AtInput

ConnectInner ==
    /\ PortsDone /\ Current \in Galaxy
    /\ IF children[Current] = <<>> THEN Returns(41)
       ELSE stack' = <<Called(Current)>> \o stack /\ UNCHANGED <<err, done>>
    /\ Walk /\ UNCHANGED buffers

NextBlock(frame) == [frame EXCEPT !.pos = @ + 1, !.port = 0]

NextSibling ==
    /\ PortsDone /\ Current \in Star
    /\ Moved(NextBlock(Top))
    /\ Walk /\ UNCHANGED buffers

Return ==
    /\ Running /\ ~AtBlock
    /\ IF Len(stack) = 1 THEN Returns(0)
       ELSE /\ stack' = <<NextBlock(stack[2])>> \o Tail(Tail(stack))
            /\ UNCHANGED <<err, done>>
    /\ Walk /\ UNCHANGED buffers

Step == NotContiguous \/ FromTerminal \/ ConnectTwoStars \/ ConnectInner \/ NextSibling \/ Return

Next ==
    \/ \E g \in Galaxy : Connect(g)
    \/ \E l \in links : Disconnect(l)
    \/ KrnSetupRun
    \/ Step

Spec == Init /\ [][Next]_vars

-----------------------------------------------------------------------------
(* What the hierarchy describes, without a walk.                           *)

Ports == (Star \cup Galaxy) \X {"in", "out"} \X Number

(* p leads to q along any number of links. *)
Leads(p, q) ==
    LET within[k \in 0..Cardinality(links)] ==
          IF k = 0 THEN {p}
          ELSE within[k - 1] \cup {l[2] : l \in {m \in links : m[1] \in within[k - 1]}}
    IN  q \in within[Cardinality(links)]

(* The galaxies and stars in the tree. *)
InTree(b) ==
    LET upTo[k \in 0..Cardinality(Galaxy)] ==
          IF k = 0 THEN {Universe}
          ELSE upTo[k - 1] \cup UNION {Range(children[g]) : g \in upTo[k - 1] \cap Galaxy}
    IN  b \in upTo[Cardinality(Galaxy)]

Between == {l \in links : l[1][2] = "out" /\ l[2][2] = "in"}
EndsInStars(l) ==
    /\ \E s \in Star, n \in Number : Leads(l[2], <<s, "in", n>>)
    /\ \E s \in Star, n \in Number : Leads(<<s, "out", n>>, l[1])

(* A topology that can run: no galaxy in it is empty, nothing is linked to *)
(* the outside of the universe, the ports in use are numbered without a    *)
(* gap, and a link between two blocks has a star at either end.            *)
Complete ==
    /\ \A g \in Galaxy : InTree(g) => children[g] # <<>>
    /\ \A l \in links : l[1][1] # Universe /\ l[2][1] # Universe
    /\ \A b \in Block : InTree(b) => Contiguous(b)
    /\ \A l \in Between : EndsInStars(l)

(* Every link into a galaxy carries something in. *)
Fed == \A l \in links : l[1][1] \in Galaxy =>
          \E s \in Star, n \in Number : Leads(<<s, "out", n>>, l[1])

Places(table, s) == {n \in Number : table[s][n] # NULL}
StarPort == Star \X Number

-----------------------------------------------------------------------------
(* The variables keep their types, and a frame stands in its galaxy.       *)
TypeOK ==
    /\ children \in Trees
    /\ links \subseteq Ports \X Ports
    /\ Cardinality(links) <= MaxLinks
    /\ err \in {0, 41, 42, 43, 44, 45, 46}
    /\ done \in BOOLEAN /\ (done => ~Running)
    /\ runs \in 0..MaxRuns
    /\ {inBuffer, outBuffer} \subseteq [Star -> [Number -> 0..created]]
    /\ {numberIn, numberOut} \subseteq [Star -> 0..IO_BUFFERS]
    /\ \A i \in DOMAIN stack : /\ stack[i].port \in 0..IO_BUFFERS
                               /\ stack[i].pos \in 1..(Len(children[stack[i].gal]) + 1)

(* KrnSetupRun accepts a topology if and only if it is complete, although  *)
(* its tests stop at the first free port, follow links from one end and    *)
(* come to a galaxy through its borders before they come to its blocks.    *)
Accepted == done => (err = 0 <=> Complete)

(* The stars share the buffers that the connections of all the galaxies,   *)
(* put together, describe: through any number of borders, and no others.   *)
SameConnections ==
    done /\ err = 0 =>
      \A e \in StarPort, f \in StarPort :
        (outBuffer[e[1]][e[2]] # NULL /\ outBuffer[e[1]][e[2]] = inBuffer[f[1]][f[2]])
        <=> Leads(<<e[1], "out", e[2]>>, <<f[1], "in", f[2]>>)

(* MinimumSamples asks the buffers 0..numberInBuffers - 1 of a star.  Where *)
(* every link into a galaxy is fed these are all its buffers, in place.    *)
InPlace == \A s \in Star : Places(inBuffer, s) = 0..(numberIn[s] - 1)
FedInPlace == done /\ err = 0 /\ Fed => InPlace

(* "Function returns the minimum number of available samples in all input  *)
(* buffers of a STAR" (krn_star.c, 480): of every topology accepted.  It   *)
(* fails: a star linked at input 0 to an input of its galaxy that nothing  *)
(* feeds, and at input 1 to a star, has its only buffer at place 1; place  *)
(* 0, which is NULL, is the one asked.                                     *)
AllInputsAsked == done /\ err = 0 => InPlace
=============================================================================
