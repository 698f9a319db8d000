------------------------------- MODULE Arguments -------------------------------
(***************************************************************************)
(* Parameters and arguments (src/KERNEL/krn_parameter.c with LineStar,     *)
(* LineGalaxy, LineLoad and LineStore around it).  Every block has a table *)
(* of parameters.  The table of a galaxy holds its arguments: a parameter  *)
(* of a block inside may refer to one by its number and then takes its     *)
(* value, at any depth.  The types and defaults of a table are those of    *)
(* the block's model, which all galaxies made from one file share.         *)
(*                                                                         *)
(* The hierarchy is a universe, galaxies of one model in it and a star in  *)
(* each.  A block is its path from the universe, and its model is told by  *)
(* its depth.  The values are of type int and float, which have no storage *)
(* of their own; expressions, names and prompts are left out, as are the   *)
(* commands that give a galaxy another model (new, load and store with a   *)
(* file name) and replace.  LineParamName is LineChp by another name, and  *)
(* LineCharg asks for what LineArg is given.                               *)
(*                                                                         *)
(* A command is one step, with the file it loads: net is what it leaves.   *)
(***************************************************************************)
EXTENDS Integers, FiniteSets, SequencesExt, Functions

CONSTANTS
    Names,          \* names of galaxies
    starName,
    Values, Zero,   \* Zero: what calloc leaves, and the default of a star
    MAX_PARAM,
    NULL,
    InitialFiles,   \* the topology files there may be at the start
    MaxCommands     \* bound of the model: commands that are not refused

Index == 0..(MAX_PARAM - 1)

KrnParamCount(table) == Cardinality({i \in Index : table[i] # NULL})

Contiguous(table) == \A i \in 0..(KrnParamCount(table) - 1) : table[i] # NULL

(* A parameter refers to the argument `arg` of the galaxy around it, or to *)
(* none.  It has the type "arg" until a model has given it another.        *)
Types == {"int", "float"}
Unbound == -1
Param == [type : Types \cup {"arg"}, val : Values, arg : Index \cup {Unbound}]

Set(t, v) == [type |-> t, val |-> v, arg |-> Unbound]
Default == {Set(t, v) : t \in Types, v \in Values}

IsBound(p) == p # NULL /\ p.arg # Unbound

(* The parameters a param line gives. *)
LineParams == {p \in Param : IsBound(p) => p.type = "arg"}

IsFile(f, names) ==
    /\ f.declared \in BOOLEAN
    /\ f.args \in [Index -> Default \cup {NULL}]
    /\ f.blocks \in Seq([name : names, params : Seq(LineParams)])
    /\ \A i, j \in DOMAIN f.blocks : f.blocks[i].name = f.blocks[j].name => i = j

(* The file of the universe and that of the galaxies. *)
AreFiles(fs) ==
    /\ DOMAIN fs = 0..1
    /\ IsFile(fs[0], Names)
    /\ IsFile(fs[1], {starName})

(* The arguments of a file are numbered as store writes them, and those    *)
(* that a galaxy without arg lines makes from 0 as well.                   *)
ASSUME ParameterAssumption ==
    /\ Zero \in Values
    /\ MAX_PARAM \in Nat \ {0}
    /\ NULL \notin Param
    /\ MaxCommands \in Nat
    /\ \A fs \in InitialFiles :
          /\ AreFiles(fs)
          /\ \A m \in 0..1 : Contiguous(fs[m].args)
          /\ ~fs[1].declared =>
                \A line \in Range(fs[1].blocks) : \A p \in Range(line.params) : p.arg \in {Unbound, 0}

VARIABLES
    net,        \* blocks, models and parameters
    file,       \* the topology files of the universe and of the galaxies
    astray,     \* history: parameters that have not had the value of their
                \* argument since one of the causes named with Cause
    commands    \* commands so far

vars == <<net, file, astray, commands>>

Universe == <<>>
Galaxy == {<<g>> : g \in Names}
StarIn(g) == Append(g, starName)
Blocks == {Universe} \cup Galaxy \cup {StarIn(g) : g \in Galaxy}

ModelOf(b) == Len(b)
Models == 0..2

None == [i \in Index |-> NULL]
StarModel == [None EXCEPT ![0] = Set("int", Zero)]

(* The first parameter keeps its value when its type is the second's. *)
KrnParamCheck(p, q) ==
    IF q = NULL THEN NULL
    ELSE IF p # NULL /\ p.type = q.type THEN p ELSE Set(q.type, q.val)

(* A mistake: the children of the galaxy are freed, and not theirs. *)
RemoveChildrenOnly(n, g) ==
    LET below == Range(n.kids[g])
    IN [n EXCEPT !.kids = [b \in Blocks |-> IF b = g THEN <<>> ELSE @[b]],
                 !.param = [b \in Blocks |-> IF b \in below THEN None ELSE @[b]]]

RemoveChildren(n, g) ==
    LET below == {b \in Blocks : IsStrictPrefix(g, b)}
    IN [n EXCEPT !.kids = [b \in Blocks |-> IF b \in below \cup {g} THEN <<>> ELSE @[b]],
                 !.param = [b \in Blocks |-> IF b \in below THEN None ELSE @[b]]]

RemoveBlock(n, b) ==
    [RemoveChildren(n, b) EXCEPT !.param[b] = None,
                                 !.kids[Front(b)] = RemoveFirst(@, b)]

-----------------------------------------------------------------------------
(* The parameters of the children of g that refer to argument k. *)
BoundTo(n, g, k) ==
    {x \in Range(n.kids[g]) \X Index : /\ IsBound(n.param[x[1]][x[2]])
                                      /\ n.param[x[1]][x[2]].arg = k}

(* The order in which propagate_arg meets them. *)
NoLater(n, g, y, x) ==
    \E p, q \in DOMAIN n.kids[g] :
        /\ n.kids[g][p] = y[1]
        /\ n.kids[g][q] = x[1]
        /\ p < q \/ (p = q /\ y[2] <= x[2])

(* A parameter that never got a type ends the call. *)
Reached(n, g, k) ==
    {x \in BoundTo(n, g, k) :
        \A y \in BoundTo(n, g, k) :
            NoLater(n, g, y, x) => n.param[y[1]][y[2]].type # "arg"}

(* Every galaxy that is reached hands the argument on. *)
Hearers(n, g, k) ==
    Reached(n, g, k) \cup UNION {Reached(n, x[1], x[2]) : x \in Reached(n, g, k)}

TurnOff(n, slots) ==
    [n EXCEPT !.param = [b \in Blocks |-> [i \in Index |->
        IF <<b, i>> \in slots THEN [n.param[b][i] EXCEPT !.arg = Unbound] ELSE n.param[b][i]]]]

(* The bits of the value are copied, whatever the two types. *)
Copy(n, slots, v) ==
    [n EXCEPT !.param = [b \in Blocks |-> [i \in Index |->
        IF <<b, i>> \in slots THEN [n.param[b][i] EXCEPT !.val = v] ELSE n.param[b][i]]]]

(* A mistake: the galaxies inside do not hand the argument on. *)
PropagateOnce(n, g, k) ==
    IF n.param[g][k] = NULL THEN TurnOff(n, BoundTo(n, g, k))
    ELSE Copy(n, Reached(n, g, k), n.param[g][k].val)

propagate_arg(n, g, k) ==
    IF n.param[g][k] = NULL THEN TurnOff(n, BoundTo(n, g, k))
    ELSE Copy(n, Hearers(n, g, k), n.param[g][k].val)

-----------------------------------------------------------------------------
Result(ok, n) == [ok |-> ok, net |-> n]

(* One parameter of KrnVerifyParams: one that is bound takes type and      *)
(* value of the argument in the model of the galaxy around it, which it    *)
(* makes first in a file without arg lines; then its own model has a say.  *)
Verified(r, b, i, create) ==
    LET n == r.net
        p == n.param[b][i]
        own == n.model[ModelOf(b)][i]
        outer == IF ~IsBound(p) THEN NULL
                 ELSE LET q == n.model[ModelOf(b) - 1][p.arg]
                      IN IF create THEN KrnParamCheck(q, own) ELSE q
        made == IF IsBound(p) THEN [n EXCEPT !.model[ModelOf(b) - 1][p.arg] = outer] ELSE n
        set == IF IsBound(p) THEN [KrnParamCheck(p, outer) EXCEPT !.arg = p.arg] ELSE p
    IN IF ~r.ok THEN r
       ELSE IF IsBound(p) /\ outer = NULL THEN Result(FALSE, n)
       ELSE Result(TRUE, propagate_arg([made EXCEPT !.param[b][i] = KrnParamCheck(set, own)],
                                       b, i))

KrnVerifyParams(n, b) ==
    LET m == ModelOf(b)
        npbm == KrnParamCount(n.model[m])
        Cut(table) == [i \in Index |-> IF i < npbm THEN table[i] ELSE NULL]
        create == b # Universe /\ ~n.flag[m - 1]
        done[i \in 0..npbm] ==
            IF i = 0 THEN Result(TRUE, [n EXCEPT !.flag[m] = TRUE, !.param[b] = Cut(@),
                                                 !.model[m] = Cut(@)])
            ELSE Verified(done[i - 1], b, i - 1, create)
    IN done[npbm]

(* LineParam in galaxy g.  A parameter that was stored without ever having *)
(* got a type is no param line at all.                                     *)
LineParamRefuses(n, g, p) ==
    /\ p.type = "arg"
    /\ \/ p.arg = Unbound
       \/ n.flag[ModelOf(g)] /\ n.model[ModelOf(g)][p.arg] = NULL

(* CreateBlock and KrnStoreStack. *)
Created(n, b, params) ==
    [n EXCEPT !.kids[Front(b)] = Append(@, b),
              !.param[b] = [i \in Index |-> IF i < Len(params) THEN params[i + 1] ELSE NULL]]

(* LineLoad empties the galaxy and its model, reads the file and verifies. *)
(* The arg lines come first; only the universe takes its own arguments     *)
(* from them, a galaxy has been given parameters by the hblock line.       *)
Emptied(f, n, g) ==
    [RemoveChildren(n, g) EXCEPT !.flag[ModelOf(g)] = f.declared,
                                 !.model[ModelOf(g)] = f.args,
                                 !.param[g] = IF g = Universe THEN f.args ELSE @]

(* The lines of one block, which Make completes. *)
ReadLine(r, g, line, Make(_, _)) ==
    LET b == Append(g, line.name)
    IN IF ~r.ok THEN r
       ELSE IF \E i \in DOMAIN line.params : LineParamRefuses(r.net, g, line.params[i])
       THEN Result(FALSE, r.net)
       ELSE Make(Created(r.net, b, line.params), b)

ReadLines(f, n, g, Make(_, _)) ==
    LET read[j \in 0..Len(f.blocks)] ==
            IF j = 0 THEN Result(TRUE, Emptied(f, n, g))
            ELSE ReadLine(read[j - 1], g, f.blocks[j], Make)
    IN read[Len(f.blocks)]

LoadFile(f, n, g, Make(_, _)) ==
    LET r == ReadLines(f, n, g, Make)
    IN IF r.ok THEN KrnVerifyParams(r.net, g) ELSE Result(FALSE, RemoveChildren(r.net, g))

(* A star is verified as it is, a galaxy is loaded in its turn. *)
LoadGalaxy(fs, n, g) == LoadFile(fs[1], n, g, KrnVerifyParams)

LineLoad(fs, n, g) ==
    IF g = Universe THEN LoadFile(fs[0], n, g, LAMBDA m, b : LoadGalaxy(fs, m, b))
    ELSE LoadGalaxy(fs, n, g)

-----------------------------------------------------------------------------
(* A mistake: the numbers in the param lines are the old ones. *)
AssocKept(table, k, before) == k

(* krn_argAssoc_A: arguments are numbered anew, without gaps.  For a       *)
(* galaxy without arguments the table stays as it was before.              *)
Assoc(table, k, before) ==
    IF KrnParamCount(table) = 0 THEN before[k]
    ELSE IF table[k] = NULL THEN 0
    ELSE Cardinality({i \in 0..(k - 1) : table[i] # NULL})

PrInfoArgs(table) ==
    [i \in Index |-> LET old == {k \in Index : table[k] # NULL
                                               /\ Cardinality({j \in 0..(k - 1) : table[j] # NULL}) = i}
                     IN IF old = {} THEN NULL ELSE table[CHOOSE k \in old : TRUE]]

PrInfoParams(table, args, before) ==
    [i \in 1..KrnParamCount(table) |->
        LET p == table[i - 1]
        IN IF IsBound(p) THEN [type |-> "arg", val |-> Zero, arg |-> Assoc(args, p.arg, before)]
           ELSE p]

(* PrInfoParams takes the parameters to be the first of their table. *)
Printable(n, g) == \A b \in Range(n.kids[g]) : Contiguous(n.param[b])

(* What PrInfoAll writes: nothing for a galaxy without blocks. *)
Stored(n, g, before) ==
    LET args == n.model[ModelOf(g)]
        kids == n.kids[g]
    IN IF kids = <<>> THEN [declared |-> FALSE, args |-> None, blocks |-> <<>>]
       ELSE [declared |-> TRUE, args |-> PrInfoArgs(args),
             blocks |-> [j \in DOMAIN kids |->
                           [name |-> Last(kids[j]),
                            params |-> PrInfoParams(n.param[kids[j]], args, before)]]]

-----------------------------------------------------------------------------
Present(n) == {b \in Blocks : b = Universe \/ b \in Range(n.kids[Front(b)])}
Selectable == Present(net) \cap ({Universe} \cup Galaxy)

(* The parameters that refer to an argument, and that argument. *)
Bindings(n) ==
    {x \in (Blocks \ {Universe}) \X Index : IsBound(n.param[x[1]][x[2]])}

Given(n, x) == n.param[Front(x[1])][n.param[x[1]][x[2]].arg]

(* Those that have another value of its type. *)
Apart(n) ==
    {x \in Bindings(n) : /\ Given(n, x) # NULL
                         /\ Given(n, x).type = n.param[x[1]][x[2]].type
                         /\ Given(n, x).val # n.param[x[1]][x[2]].val}

Init ==
    /\ net = [kids |-> [b \in Blocks |-> <<>>],
              model |-> [m \in Models |-> IF m = 2 THEN StarModel ELSE None],
              flag |-> [m \in Models |-> m = 2],
              param |-> [b \in Blocks |-> None]]
    /\ file \in InitialFiles
    /\ astray = {}
    /\ commands = 0

(* An instance has a parameter that its model has lost.  The next command  *)
(* that comes upon it follows a NULL pointer: the search ends there.       *)
Lost(n) == \E g \in Galaxy, i \in Index : n.param[g][i] # NULL /\ n.model[1][i] = NULL

Command ==
    /\ commands < MaxCommands
    /\ ~Lost(net)
    /\ commands' = commands + 1

(* A parameter that propagate_arg does not reach may go astray, and one    *)
(* that was astray before may stay so.                                     *)
Unreached(n) ==
    {x \in Bindings(n) : x \notin Reached(n, Front(x[1]), n.param[x[1]][x[2]].arg)}

LeaveAfter(n, before) ==
    /\ net' = n
    /\ astray' = Apart(n) \cap (before \cup Unreached(n))

Leave(n) == LeaveAfter(n, astray)

(* In a block that is verified a parameter starts from the argument in the *)
(* model of the galaxy.  That is not the galaxy's own, or the block makes  *)
(* another of it, for want of arg lines.                                   *)
StartsApart(n, x) ==
    LET m == ModelOf(Front(x[1]))
        k == n.param[x[1]][x[2]].arg
        q == net.model[m][k]
    IN \/ q = NULL
       \/ q.type # Given(n, x).type
       \/ q.val # Given(n, x).val
       \/ ~net.flag[m] /\ \E i \in Index : /\ IsBound(n.param[x[1]][i])
                                           /\ n.param[x[1]][i].arg = k
                                           /\ n.param[x[1]][i].type # q.type

(* Why parameters may go astray when b is loaded or verified: an error     *)
(* leaves the rest of the block, and what is in it, as it was.             *)
Cause(r, b) ==
    {x \in Apart(r.net) : IF r.ok THEN x[1] = b /\ StartsApart(r.net, x)
                          ELSE IsPrefix(b, x[1])}

(* `param` and `block` or `hblock`, typed in g. *)
L_block(g, name, params) ==
    LET b == Append(g, name)
        n == Created(net, b, params)
        r == IF b \in Galaxy THEN LineLoad(file, n, b) ELSE KrnVerifyParams(n, b)
    IN /\ Command
       /\ b \notin Present(net)
       /\ \A i \in DOMAIN params : ~LineParamRefuses(net, g, params[i])
       /\ LeaveAfter(r.net, astray \cup Cause(r, b))
       /\ UNCHANGED file

L_load(g) ==
    LET r == LineLoad(file, net, g)
    IN /\ Command
       /\ LeaveAfter(r.net, {x \in astray : ~IsStrictPrefix(g, x[1])} \cup Cause(r, g))
       /\ UNCHANGED file

(* KrnCreateModel resets the flag of a model it has found, too.  Whatever  *)
(* galaxy was printed last has left its numbers.                           *)
L_store(g) ==
    /\ Command
    /\ Printable(net, g)
    /\ \E before \in [Index -> Index] :
          file' = [file EXCEPT ![ModelOf(g)] = Stored(net, g, before)]
    /\ Leave([net EXCEPT !.flag[ModelOf(g)] = FALSE])

L_remove(b) ==
    /\ Command
    /\ Leave(RemoveBlock(net, b))
    /\ UNCHANGED file

-----------------------------------------------------------------------------
(* arg k NULL: the argument goes, and what was bound to it is turned off. *)
LineArgNULL(g, k) ==
    /\ Command
    /\ net.model[ModelOf(g)][k] # NULL
    /\ Leave(propagate_arg([net EXCEPT !.model[ModelOf(g)][k] = NULL,
                                       !.param[g][k] = NULL,
                                       !.flag[ModelOf(g)] = TRUE], g, k))
    /\ UNCHANGED file

(* arg -1: all go. *)
LineArgNone(g) ==
    LET gone == [net EXCEPT !.model[ModelOf(g)] = None, !.param[g] = None,
                            !.flag[ModelOf(g)] = TRUE]
    IN /\ Command
       /\ Leave(TurnOff(gone, UNION {BoundTo(gone, g, k) : k \in Index}))
       /\ UNCHANGED file

(* arg k type value.  The universe has its model's arguments.  A galaxy's  *)
(* own keeps its value, or the one it is given is the model's when the     *)
(* type changes; for an argument that is new it gets none.                 *)
Redefined(g, k, pp) ==
    LET old == net.model[ModelOf(g)][k]
        freed == IF old = NULL \/ old.type = pp.type THEN net
                 ELSE propagate_arg([net EXCEPT !.model[ModelOf(g)][k] = NULL,
                                               !.param[g][k] = NULL], g, k)
        own == IF g = Universe THEN pp
               ELSE IF old = NULL THEN freed.param[g][k]
               ELSE KrnParamCheck(freed.param[g][k], pp)
    IN propagate_arg([freed EXCEPT !.model[ModelOf(g)][k] = pp, !.param[g][k] = own,
                                   !.flag[ModelOf(g)] = TRUE], g, k)

LineArg(g, k, t, v) ==
    /\ Command
    /\ Leave(Redefined(g, k, Set(t, v)))
    /\ UNCHANGED file

-----------------------------------------------------------------------------
(* chp goes by the number of parameters and takes them to be the first. *)
Changeable(b, i) ==
    /\ i < KrnParamCount(net.param[b])
    /\ net.param[b][i] # NULL

(* chp i arg k: the block is bound, and hears at once what the argument    *)
(* is, or that its galaxy has none.                                        *)
LineChpArg(b, i, k) ==
    LET p == net.param[b][i]
        q == net.model[ModelOf(Front(b))][k]
    IN /\ Command
       /\ Changeable(b, i)
       /\ p.arg # k
       /\ q # NULL /\ q.type = p.type
       /\ Leave(propagate_arg([net EXCEPT !.param[b][i].arg = k], Front(b), k))
       /\ UNCHANGED file

LineChpOff(b, i) ==
    /\ Command
    /\ Changeable(b, i)
    /\ IsBound(net.param[b][i])
    /\ Leave([net EXCEPT !.param[b][i].arg = Unbound])
    /\ UNCHANGED file

(* chp i value: nothing is assigned to a parameter without a type. *)
LineChpValue(b, i, v) ==
    /\ Command
    /\ Changeable(b, i)
    /\ Leave(propagate_arg([net EXCEPT !.param[b][i].arg = Unbound,
                                       !.param[b][i].val = IF net.param[b][i].type = "arg"
                                                           THEN @ ELSE v], b, i))
    /\ UNCHANGED file

LineChpDefault(b, i) ==
    /\ Command
    /\ Changeable(b, i)
    /\ Leave(propagate_arg([net EXCEPT !.param[b][i] = KrnParamCheck(NULL, net.model[ModelOf(b)][i])],
                           b, i))
    /\ UNCHANGED file

LineChp ==
    \E b \in Present(net) \ {Universe}, i \in Index :
        \/ \E k \in Index : LineChpArg(b, i, k)
        \/ \E v \in Values : LineChpValue(b, i, v)
        \/ LineChpOff(b, i)
        \/ LineChpDefault(b, i)

(* What may stand in a param line. *)
Line == Default \cup {[type |-> "arg", val |-> Zero, arg |-> k] : k \in Index}

Next ==
    \/ \E g \in Selectable :
          \/ L_load(g) \/ L_store(g)
          \/ \E k \in Index : \/ LineArgNULL(g, k)
                              \/ \E t \in Types, v \in Values : LineArg(g, k, t, v)
          \/ LineArgNone(g)
    \/ \E params \in BoundedSeq(Line, 1) :
          \/ \E name \in Names : L_block(Universe, name, params)
          \/ \E g \in Selectable \ {Universe} : L_block(g, starName, params)
    \/ \E b \in Present(net) \ {Universe} : L_remove(b)
    \/ LineChp

Spec == Init /\ [][Next]_vars

-----------------------------------------------------------------------------
Table == [Index -> Param \cup {NULL}]

(* The parameters of a model are never bound, nor those of the universe,   *)
(* and a block that is not in the tree has neither children nor storage.   *)
IsNet(n) ==
    /\ n \in [kids : [Blocks -> Seq(Blocks \ {Universe})],
              model : [Models -> [Index -> Default \cup {NULL}]],
              flag : [Models -> BOOLEAN],
              param : [Blocks -> Table]]
    /\ \A i \in Index : ~IsBound(n.param[Universe][i])
    /\ \A b \in Blocks : /\ IsInjective(n.kids[b])
                         /\ \A c \in Range(n.kids[b]) : Front(c) = b
                         /\ b \notin Present(n) => n.kids[b] = <<>> /\ n.param[b] = None

TypeOK ==
    /\ IsNet(net)
    /\ AreFiles(file)
    /\ astray \subseteq Bindings(net)
    /\ commands \in 0..MaxCommands

(* README.md:93: "parameter broadcast (via args) is possible even from the *)
(* highest topology level."  A parameter that is bound to an argument has  *)
(* its value, through any depth and after any sequence of edits, loads and *)
(* stores, and once it has it, it keeps having it.  It has another only    *)
(* from a command named in Cause or Unreached until it next follows, or    *)
(* when its type is another: then the bits are copied.                     *)
Follows == Apart(net) \subseteq astray

(* Every parameter is of its model, and every bound one has an argument of *)
(* its type and value.  The arguments of the universe are those of its     *)
(* model, which is what store writes: a galaxy that gave one in the model  *)
(* another type (KrnVerifyParams) has parted them.                         *)
Consistent(n) ==
    /\ n.param[Universe] = n.model[0]
    /\ \A b \in Present(n), i \in Index :
          n.param[b][i] # NULL => /\ n.model[ModelOf(b)][i] # NULL
                                  /\ n.param[b][i].type = n.model[ModelOf(b)][i].type
    /\ \A x \in Bindings(n) : LET p == n.param[x[1]][x[2]]
                              IN Given(n, x) # NULL /\ Given(n, x) = [p EXCEPT !.arg = Given(n, x).arg]

Kept == [k \in Index |-> k]

(* All files as store would write them; the galaxies share one. *)
StoredAll(n) ==
    [m \in 0..1 |-> IF m = 0 THEN Stored(n, Universe, Kept)
                    ELSE LET gs == Range(n.kids[Universe])
                         IN IF gs = {} THEN file[1] ELSE Stored(n, CHOOSE g \in gs : TRUE, Kept)]

OfOneFile(n) == \A g, h \in Range(n.kids[Universe]) : Stored(n, g, Kept) = Stored(n, h, Kept)

(* README.md:95: "Argument numbers may be noncontiguous.  However, when    *)
(* stored they become contiguous."  Loading what has been stored gives the *)
(* stars the parameters they had, though the numbers of the arguments are  *)
(* others and every value passes from the universe inwards once more.      *)
LoadedAsStored ==
    Consistent(net) /\ OfOneFile(net) /\ (\A g \in Selectable : Printable(net, g))
    => LET r == LineLoad(StoredAll(net), net, Universe)
       IN /\ r.ok
          /\ r.net.kids = net.kids
          /\ \A g \in Selectable : \A i \in Index :
                LET p == net.param[StarIn(g)][i]
                    q == r.net.param[StarIn(g)][i]
                IN g # Universe => /\ (p = NULL) = (q = NULL)
                                   /\ p # NULL => /\ q.type = p.type /\ q.val = p.val
                                                  /\ IsBound(p) = IsBound(q)
=============================================================================
