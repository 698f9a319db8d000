----------------------------- MODULE TopologyProofs -----------------------------
(***************************************************************************)
(* What the commands of module Topology keep, for any number of blocks,    *)
(* ports and connections: both ends of every connection agree, and a       *)
(* terminal of the galaxy is connected once.                               *)
(*                                                                         *)
(* First the helpers the commands are made of (Put, Removed, a turn of     *)
(* DeleteBlock's loop), each with what it does to the agreement of any two *)
(* tables; most are stated for one of the tables and used for both, since  *)
(* inputs and outputs are treated alike.  Then one lemma for each command, *)
(* and last what makecontig and delete promise of a single step.           *)
(***************************************************************************)
EXTENDS Topology, WellFoundedInduction, FiniteSetTheorems, TLAPS

(* A set of numbers that is not empty has a smallest element.              *)
LEMMA NatBelow ==
    ASSUME NEW S \in SUBSET Nat, S # {}
    PROVE  \E x \in S : \A y \in S : x <= y
  <1>1. IsWellFoundedOn({ss \in Nat \X Nat : ss[1] < ss[2]}, Nat)
    BY NatLessThanWellFounded DEF OpToRel
  <1>2. \E x \in S : \A y \in S : ~(<<y, x>> \in {ss \in Nat \X Nat : ss[1] < ss[2]})
    BY <1>1, WFMin
  <1>3. PICK x \in S : \A y \in S : ~(<<y, x>> \in {ss \in Nat \X Nat : ss[1] < ss[2]})
    BY <1>2
  <1>4. \A y \in S : x <= y
    <2> SUFFICES ASSUME NEW y \in S PROVE x <= y
      OBVIOUS
    <2>1. <<y, x>> \in Nat \X Nat => ~(y < x)
      BY <1>3
    <2> QED BY <2>1
  <1> QED BY <1>4

(* Min picks an element.                                                   *)
LEMMA MinIn ==
    ASSUME NEW S \in SUBSET Nat, S # {}
    PROVE  Min(S) \in S
  BY NatBelow DEF Min

(* Induction over the numbers up to N, for the set of those at which a     *)
(* fact holds: the theorem of the library takes an operator.               *)
LEMMA SetInduction ==
    ASSUME NEW N \in Nat, NEW T, 0 \in T, \A n \in 0..(N - 1) : n \in T => n + 1 \in T
    PROVE  0..N \subseteq T
  <1> SUFFICES ASSUME ~(0..N \subseteq T) PROVE FALSE
    OBVIOUS
  <1>1. PICK m \in (0..N) \ T : \A k \in (0..N) \ T : m <= k
    <2>1. (0..N) \ T \in SUBSET Nat /\ (0..N) \ T # {}
      OBVIOUS
    <2> QED BY <2>1, NatBelow
  <1>2. m - 1 \in 0..(N - 1) /\ m - 1 \in T
    BY <1>1
  <1> QED BY <1>1, <1>2

(* What Put changes: the one entry at the end named, and nothing for the   *)
(* ends at the galaxy, which are in no table.                              *)
LEMMA PutAt ==
    ASSUME NEW t \in Table, NEW e \in End \cup {None}, NEW v,
           NEW c \in Block, NEW p \in Port
    PROVE  Put(t, e, v)[c][p] = IF e = <<c, p>> THEN v ELSE t[c][p]
  <1>0. <<c, p>> # None
    BY BlockAssumption DEF End
  <1>1. CASE e = None
    BY <1>0, <1>1 DEF Put
  <1>2. CASE e # None
    <2>1. PICK x \in Block \cup {Galaxy}, q \in Port : e = <<x, q>>
      BY <1>2 DEF End
    <2>2. CASE x = Galaxy
      BY <2>1, <2>2, <1>2, BlockAssumption DEF Put, IsAt
    <2>3. CASE x # Galaxy
      BY <2>1, <2>3, <1>2, BlockAssumption DEF Put, IsAt, Table
    <2> QED BY <2>2, <2>3
  <1> QED BY <1>1, <1>2

(* Put keeps a table a table.                                              *)
LEMMA PutType ==
    ASSUME NEW t \in Table, NEW e \in End \cup {None}, NEW v \in End \cup {None}
    PROVE  Put(t, e, v) \in Table
  <1>1. CASE e = None \/ IsAt(e, Galaxy)
    BY <1>1 DEF Put
  <1>2. CASE e # None /\ ~IsAt(e, Galaxy)
    <2>1. PICK x \in Block, q \in Port : e = <<x, q>>
      BY <1>2 DEF End, IsAt
    <2> QED BY <1>2, <2>1 DEF Put, Table
  <1> QED BY <1>1, <1>2

(* Port p of block b is connected to port q of c; two tables agree when    *)
(* each knows the connections of the other; a terminal of the galaxy is    *)
(* used once.                                                              *)
Leads(table, b, p, c, q) == table[b][p] = <<c, q>>

Agree(S, table, other) ==
    \A b, c \in Block, p, q \in Port :
        b \in S /\ Leads(table, b, p, c, q) => c \in S /\ Leads(other, c, q, b, p)

Both(S, in, out) == Agree(S, in, out) /\ Agree(S, out, in)

Once(S, table) ==
    \A b, c \in S, p, q, k \in Port :
        Leads(table, b, p, Galaxy, k) /\ Leads(table, c, q, Galaxy, k) => b = c /\ p = q

(* A port of a block or a terminal of the galaxy is an end and is not      *)
(* None.                                                                   *)
LEMMA NotAnEnd ==
    \A x \in Block \cup {Galaxy}, p \in Port : <<x, p>> # None /\ <<x, p>> \in End
  BY BlockAssumption DEF End

(* A port leads to one other end.                                          *)
LEMMA LeadsOnce ==
    ASSUME NEW t, NEW b, NEW p, NEW c, NEW q, NEW d, NEW r,
           Leads(t, b, p, c, q), Leads(t, b, p, d, r)
    PROVE  c = d /\ q = r
  BY DEF Leads

(* The connections after Put of an end.                                    *)
LEMMA PutLeads ==
    ASSUME NEW t \in Table, NEW x \in Block \cup {Galaxy}, NEW j \in Port, NEW y, NEW k,
           NEW b \in Block, NEW p \in Port, NEW c, NEW q
    PROVE  Leads(Put(t, <<x, j>>, <<y, k>>), b, p, c, q)
             <=> IF x = b /\ j = p THEN y = c /\ k = q ELSE Leads(t, b, p, c, q)
  <1>1. <<x, j>> \in End \cup {None} /\ (<<x, j>> = <<b, p>> <=> x = b /\ j = p)
    BY NotAnEnd
  <1> QED BY <1>1, PutAt DEF Leads

(* The connections after Put of None.                                      *)
LEMMA PutNone ==
    ASSUME NEW t \in Table, NEW x \in Block \cup {Galaxy}, NEW j \in Port,
           NEW b \in Block, NEW p \in Port, NEW c \in Block \cup {Galaxy}, NEW q \in Port
    PROVE  Leads(Put(t, <<x, j>>, None), b, p, c, q)
             <=> ~(x = b /\ j = p) /\ Leads(t, b, p, c, q)
  <1>1. <<x, j>> \in End \cup {None} /\ (<<x, j>> = <<b, p>> <=> x = b /\ j = p)
    BY NotAnEnd
  <1> QED BY <1>1, PutAt, NotAnEnd DEF Leads

(* A free port leads nowhere.                                              *)
LEMMA FreeLeads ==
    ASSUME NEW t, NEW b, NEW p, NEW c \in Block \cup {Galaxy}, NEW q \in Port, t[b][p] = None
    PROVE  ~Leads(t, b, p, c, q)
  BY NotAnEnd DEF Leads

(* A connection between two free ports, seen from one side. *)
LEMMA JoiningSide ==
    ASSUME NEW S \in SUBSET Block, NEW t \in Table, NEW u \in Table, Both(S, t, u),
           NEW x \in S \cup {Galaxy}, NEW y \in S \cup {Galaxy},
           NEW j \in Port, NEW k \in Port, ~(x = Galaxy /\ y = Galaxy),
           x # Galaxy => t[x][j] = None,
           y # Galaxy => u[y][k] = None
    PROVE  Agree(S, Put(t, <<x, j>>, <<y, k>>), Put(u, <<y, k>>, <<x, j>>))
  <1> DEFINE t1 == Put(t, <<x, j>>, <<y, k>>)
             u1 == Put(u, <<y, k>>, <<x, j>>)
  <1>1. \A b, c \in Block, p, q \in Port :
           /\ Leads(t1, b, p, c, q) <=> IF x = b /\ j = p THEN y = c /\ k = q ELSE Leads(t, b, p, c, q)
           /\ Leads(u1, c, q, b, p) <=> IF y = c /\ k = q THEN x = b /\ j = p ELSE Leads(u, c, q, b, p)
    BY PutLeads
  <1>2. \A b \in Block, p \in Port : y # Galaxy => ~Leads(u, y, k, b, p)
    BY FreeLeads
  <1> HIDE DEF t1, u1
  <1>3. Agree(S, t1, u1)
    BY <1>1, <1>2, BlockAssumption DEF Both, Agree
  <1> QED BY <1>3 DEF t1, u1

(* LineConnect joins two free ports: the tables still agree.               *)
LEMMA Joining ==
    ASSUME NEW S \in SUBSET Block, NEW in \in Table, NEW out \in Table, Both(S, in, out),
           NEW from \in S \cup {Galaxy}, NEW to \in S \cup {Galaxy},
           NEW o \in Port, NEW i \in Port, ~(from = Galaxy /\ to = Galaxy),
           from # Galaxy => out[from][o] = None,
           to # Galaxy => in[to][i] = None
    PROVE  Both(S, Put(in, <<to, i>>, <<from, o>>), Put(out, <<from, o>>, <<to, i>>))
  <1>1. Both(S, out, in)
    BY DEF Both
  <1> QED BY <1>1, JoiningSide DEF Both

(* A connection cut at both ends, seen from one side.                      *)
LEMMA CuttingSide ==
    ASSUME NEW S \in SUBSET Block, NEW t \in Table, NEW u \in Table, Both(S, t, u),
           NEW x \in S \cup {Galaxy}, NEW y \in S \cup {Galaxy},
           NEW j \in Port, NEW k \in Port,
           \/ x # Galaxy /\ Leads(t, x, j, y, k)
           \/ y # Galaxy /\ Leads(u, y, k, x, j)
    PROVE  Agree(S, Put(t, <<x, j>>, None), Put(u, <<y, k>>, None))
  <1> DEFINE t1 == Put(t, <<x, j>>, None)
             u1 == Put(u, <<y, k>>, None)
  <1>1. \A b, c \in Block, p, q \in Port :
           /\ Leads(t1, b, p, c, q) <=> ~(x = b /\ j = p) /\ Leads(t, b, p, c, q)
           /\ Leads(u1, c, q, b, p) <=> ~(y = c /\ k = q) /\ Leads(u, c, q, b, p)
    BY PutNone
  <1>2. \A b \in Block, p \in Port :
           y # Galaxy /\ Leads(u, y, k, x, j) /\ Leads(u, y, k, b, p) => x = b /\ j = p
    BY LeadsOnce
  <1> HIDE DEF t1, u1
  <1>3. Agree(S, t1, u1)
    BY <1>1, <1>2, BlockAssumption DEF Both, Agree
  <1> QED BY <1>3 DEF t1, u1

(* LineDisConnect cuts a connection that one of the tables knows: the      *)
(* tables still agree.                                                     *)
LEMMA Cutting ==
    ASSUME NEW S \in SUBSET Block, NEW in \in Table, NEW out \in Table, Both(S, in, out),
           NEW from \in S \cup {Galaxy}, NEW to \in S \cup {Galaxy},
           NEW o \in Port, NEW i \in Port,
           \/ from # Galaxy /\ Leads(out, from, o, to, i)
           \/ to # Galaxy /\ Leads(in, to, i, from, o)
    PROVE  Both(S, Put(in, <<to, i>>, None), Put(out, <<from, o>>, None))
  <1>1. Both(S, out, in)
    BY DEF Both
  <1> QED BY <1>1, CuttingSide DEF Both

(* The connections RemoveBlock leaves.                                     *)
LEMMA RemovedLeads ==
    ASSUME NEW t, NEW u, NEW b \in Block,
           NEW d \in Block, NEW p \in Port, NEW c \in Block \cup {Galaxy}, NEW q \in Port
    PROVE  Leads(Removed(t, u, b), d, p, c, q)
             <=> d # b /\ (\A r \in Port : ~Leads(u, b, r, d, p)) /\ Leads(t, d, p, c, q)
  BY NotAnEnd DEF Removed, Leads

(* RemoveBlock, seen from one side.                                        *)
LEMMA RemovingSide ==
    ASSUME NEW S \in SUBSET Block, NEW t \in Table, NEW u \in Table, Both(S, t, u),
           NEW b \in S
    PROVE  Agree(S \ {b}, Removed(t, u, b), Removed(u, t, b))
  <1>1. \A d, c \in Block, p, q, r \in Port :
           Leads(u, c, q, d, p) /\ Leads(u, c, q, b, r) => d = b
    BY LeadsOnce
  <1> QED BY <1>1, RemovedLeads DEF Both, Agree

(* RemoveBlock clears the other ends: the tables of the blocks that stay   *)
(* agree.                                                                  *)
LEMMA Removing ==
    ASSUME NEW S \in SUBSET Block, NEW in \in Table, NEW out \in Table, Both(S, in, out),
           NEW b \in S
    PROVE  Both(S \ {b}, Removed(in, out, b), Removed(out, in, b))
  <1>1. Both(S, out, in)
    BY DEF Both
  <1> QED BY <1>1, RemovingSide DEF Both

(* An assignment to one port is a Put.                                     *)
LEMMA ExceptPut ==
    ASSUME NEW t, NEW b \in Block, NEW p \in Port, NEW v
    PROVE  [t EXCEPT ![b][p] = v] = Put(t, <<b, p>>, v)
  BY NotAnEnd, BlockAssumption DEF Put, IsAt

(* The entries of a table are ends or None.                                *)
LEMMA InTable ==
    ASSUME NEW t \in Table, NEW b \in Block, NEW p \in Port
    PROVE  t[b][p] \in End \cup {None}
  BY DEF Table

(* Block c, with free ports a and o, in front of port n of z. *)
LEMMA Inserting ==
    ASSUME NEW S \in SUBSET Block, NEW t \in Table, NEW u \in Table, Both(S, t, u),
           NEW c \in S, NEW z \in S, z # c, NEW a \in Port, NEW o \in Port, NEW n \in Port,
           t[c][a] = None, u[c][o] = None, ~IsAt(t[z][n], c)
    PROVE  Both(S, Put(Put(t, <<c, a>>, t[z][n]), <<z, n>>, <<c, o>>),
                   Put(Put(u, t[z][n], <<c, a>>), <<c, o>>, <<z, n>>))
  <1> DEFINE t0 == Put(t, <<c, a>>, t[z][n])
             u0 == Put(u, t[z][n], <<c, a>>)
             t1 == Put(t0, <<z, n>>, <<c, o>>)
             u1 == Put(u0, <<c, o>>, <<z, n>>)
  <1>0. t[z][n] \in End \cup {None} /\ t0 \in Table /\ u0 \in Table
    BY InTable, PutType, NotAnEnd
  <1>1. \A d \in Block, p \in Port, x \in Block \cup {Galaxy}, q \in Port :
           /\ Leads(t0, d, p, x, q) <=>
                IF c = d /\ a = p THEN Leads(t, z, n, x, q) ELSE Leads(t, d, p, x, q)
           /\ Leads(u0, d, p, x, q) <=>
                IF Leads(t, z, n, d, p) THEN c = x /\ a = q ELSE Leads(u, d, p, x, q)
    <2> SUFFICES ASSUME NEW d \in Block, NEW p \in Port, NEW x \in Block \cup {Galaxy}, NEW q \in Port
                 PROVE  /\ Leads(t0, d, p, x, q) <=>
                             IF c = d /\ a = p THEN Leads(t, z, n, x, q) ELSE Leads(t, d, p, x, q)
                        /\ Leads(u0, d, p, x, q) <=>
                             IF Leads(t, z, n, d, p) THEN c = x /\ a = q ELSE Leads(u, d, p, x, q)
      OBVIOUS
    <2>1. <<c, a>> \in End \cup {None} /\ (<<c, a>> = <<d, p>> <=> c = d /\ a = p)
      BY NotAnEnd
    <2>2. t0[d][p] = IF <<c, a>> = <<d, p>> THEN t[z][n] ELSE t[d][p]
      BY <2>1, PutAt
    <2>3. u0[d][p] = IF t[z][n] = <<d, p>> THEN <<c, a>> ELSE u[d][p]
      BY <1>0, PutAt
    <2> QED BY <2>1, <2>2, <2>3 DEF Leads
  <1>2. \A d \in Block, p \in Port, x \in Block \cup {Galaxy}, q \in Port :
           /\ Leads(t1, d, p, x, q) <=>
                IF z = d /\ n = p THEN c = x /\ o = q ELSE Leads(t0, d, p, x, q)
           /\ Leads(u1, d, p, x, q) <=>
                IF c = d /\ o = p THEN z = x /\ n = q ELSE Leads(u0, d, p, x, q)
    BY <1>0, PutLeads
  <1>3. \A x \in Block \cup {Galaxy}, q \in Port :
           ~Leads(t, c, a, x, q) /\ ~Leads(u, c, o, x, q) /\ ~Leads(t, z, n, c, q)
    <2>1. \A q \in Port : ~Leads(t, z, n, c, q)
      BY NotAnEnd DEF Leads, IsAt
    <2> QED BY <2>1, FreeLeads
  <1>4. \A d, e \in Block, p, q, r \in Port : Leads(t, z, n, d, p) /\ Leads(t, z, n, e, q) => d = e /\ p = q
    BY LeadsOnce
  <1>5. \A d, e, f \in Block, p, q, r \in Port :
           /\ Leads(t, d, p, e, q) /\ Leads(t, d, p, f, r) => e = f /\ q = r
           /\ Leads(u, d, p, e, q) /\ Leads(u, d, p, f, r) => e = f /\ q = r
    BY LeadsOnce
  <1> HIDE DEF t0, u0, t1, u1
  <1>6. Agree(S, t1, u1)
    BY <1>1, <1>2, <1>3, <1>5, BlockAssumption DEF Both, Agree
  <1>7. Agree(S, u1, t1)
    BY <1>1, <1>2, <1>3, <1>5, BlockAssumption DEF Both, Agree
  <1> QED BY <1>6, <1>7 DEF Both, t0, u0, t1, u1

(* One turn of the loop of DeleteBlock. *)
Net == [inputs : Table, outputs : Table]

(* The two tables after a turn, as Puts.                                   *)
LEMMA JoinedPut ==
    ASSUME NEW net \in Net, NEW b \in Block, NEW i \in Port
    PROVE  LET source == net.inputs[b][i]
               target == net.outputs[b][i]
               meet == source # None /\ target # None /\ source[1] # target[1]
           IN /\ Joined(net, b, i).inputs = Put(Put(net.inputs, <<b, i>>, None), target,
                                                IF meet THEN source ELSE None)
              /\ Joined(net, b, i).outputs = Put(Put(net.outputs, <<b, i>>, None), source,
                                                 IF meet THEN target ELSE None)
              /\ Joined(net, b, i) \in Net
  <1> DEFINE source == net.inputs[b][i]
             target == net.outputs[b][i]
             meet == source # None /\ target # None /\ source[1] # target[1]
             in0 == Put(net.inputs, <<b, i>>, None)
             out0 == Put(net.outputs, <<b, i>>, None)
             in1 == Put(in0, target, IF meet THEN source ELSE None)
             out1 == Put(out0, source, IF meet THEN target ELSE None)
  <1>1. net.inputs \in Table /\ net.outputs \in Table
    BY DEF Net
  <1>2. source \in End \cup {None} /\ target \in End \cup {None} /\ <<b, i>> \in End
    BY <1>1, InTable, NotAnEnd
  <1>3. in0 \in Table /\ out0 \in Table
    BY <1>1, <1>2, PutType
  <1>4. in1 \in Table /\ out1 \in Table
    BY <1>2, <1>3, PutType
  <1>5. Joined(net, b, i) = [inputs |-> in1, outputs |-> out1]
    BY ExceptPut DEF Joined
  <1> QED BY <1>4, <1>5 DEF Net

(* The connections after a turn.                                           *)
LEMMA JoinedLeads ==
    ASSUME NEW net \in Net, NEW b \in Block, NEW i \in Port,
           NEW d \in Block, NEW p \in Port, NEW x \in Block \cup {Galaxy}, NEW q \in Port
    PROVE  LET in == net.inputs
               out == net.outputs
               meet == in[b][i] # None /\ out[b][i] # None /\ in[b][i][1] # out[b][i][1]
           IN /\ Leads(Joined(net, b, i).inputs, d, p, x, q) <=>
                    IF Leads(out, b, i, d, p) THEN meet /\ Leads(in, b, i, x, q)
                    ELSE ~(b = d /\ i = p) /\ Leads(in, d, p, x, q)
              /\ Leads(Joined(net, b, i).outputs, d, p, x, q) <=>
                    IF Leads(in, b, i, d, p) THEN meet /\ Leads(out, b, i, x, q)
                    ELSE ~(b = d /\ i = p) /\ Leads(out, d, p, x, q)
  <1> DEFINE in == net.inputs
             out == net.outputs
             meet == in[b][i] # None /\ out[b][i] # None /\ in[b][i][1] # out[b][i][1]
             in0 == Put(in, <<b, i>>, None)
             out0 == Put(out, <<b, i>>, None)
             in1 == Joined(net, b, i).inputs
             out1 == Joined(net, b, i).outputs
  <1>1. in \in Table /\ out \in Table
    BY DEF Net
  <1>2. in[b][i] \in End \cup {None} /\ out[b][i] \in End \cup {None} /\ <<b, i>> \in End
    BY <1>1, InTable, NotAnEnd
  <1>3. in0 \in Table /\ out0 \in Table
    BY <1>1, <1>2, PutType
  <1>4. /\ Leads(in0, d, p, x, q) <=> ~(b = d /\ i = p) /\ Leads(in, d, p, x, q)
        /\ Leads(out0, d, p, x, q) <=> ~(b = d /\ i = p) /\ Leads(out, d, p, x, q)
    BY <1>1, PutNone
  <1>5. /\ in1 = Put(in0, out[b][i], IF meet THEN in[b][i] ELSE None)
        /\ out1 = Put(out0, in[b][i], IF meet THEN out[b][i] ELSE None)
    BY JoinedPut
  <1> HIDE DEF in0, out0, in1, out1, meet
  <1>6. in1[d][p] = IF out[b][i] = <<d, p>> THEN IF meet THEN in[b][i] ELSE None ELSE in0[d][p]
    BY <1>2, <1>3, <1>5, PutAt
  <1>7. out1[d][p] = IF in[b][i] = <<d, p>> THEN IF meet THEN out[b][i] ELSE None ELSE out0[d][p]
    BY <1>2, <1>3, <1>5, PutAt
  <1>8. None # <<x, q>>
    BY NotAnEnd
  <1>9. /\ Leads(in1, d, p, x, q) <=>
              IF Leads(out, b, i, d, p) THEN meet /\ Leads(in, b, i, x, q)
              ELSE ~(b = d /\ i = p) /\ Leads(in, d, p, x, q)
        /\ Leads(out1, d, p, x, q) <=>
              IF Leads(in, b, i, d, p) THEN meet /\ Leads(out, b, i, x, q)
              ELSE ~(b = d /\ i = p) /\ Leads(out, d, p, x, q)
    BY <1>4, <1>6, <1>7, <1>8 DEF Leads
  <1> QED BY <1>9 DEF meet, in1, out1

(* A turn keeps the tables in agreement.                                   *)
LEMMA JoinedAgrees ==
    ASSUME NEW S \in SUBSET Block, NEW net \in Net, Both(S, net.inputs, net.outputs),
           NEW b \in S, NEW i \in Port
    PROVE  Both(S, Joined(net, b, i).inputs, Joined(net, b, i).outputs)
  <1> DEFINE in == net.inputs
             out == net.outputs
             meet == in[b][i] # None /\ out[b][i] # None /\ in[b][i][1] # out[b][i][1]
             in1 == Joined(net, b, i).inputs
             out1 == Joined(net, b, i).outputs
  <1>1. \A d \in Block, p \in Port, x \in Block \cup {Galaxy}, q \in Port :
           /\ Leads(in1, d, p, x, q) <=>
                IF Leads(out, b, i, d, p) THEN meet /\ Leads(in, b, i, x, q)
                ELSE ~(b = d /\ i = p) /\ Leads(in, d, p, x, q)
           /\ Leads(out1, d, p, x, q) <=>
                IF Leads(in, b, i, d, p) THEN meet /\ Leads(out, b, i, x, q)
                ELSE ~(b = d /\ i = p) /\ Leads(out, d, p, x, q)
    BY JoinedLeads
  <1>2. \A d, e \in Block, p, q \in Port :
           Leads(in, b, i, d, p) /\ Leads(out, b, i, e, q) => (meet <=> d # e)
    BY NotAnEnd DEF Leads
  <1>3. \A d, e, f \in Block, p, q, r \in Port :
           /\ Leads(in, d, p, e, q) /\ Leads(in, d, p, f, r) => e = f /\ q = r
           /\ Leads(out, d, p, e, q) /\ Leads(out, d, p, f, r) => e = f /\ q = r
    BY LeadsOnce
  <1>4. Agree(S, in, out) /\ Agree(S, out, in)
    BY DEF Both
  <1> HIDE DEF in, out, meet, in1, out1
  <1>5. Agree(S, in1, out1)
    BY <1>1, <1>2, <1>3, <1>4, BlockAssumption DEF Agree
  <1>6. Agree(S, out1, in1)
    BY <1>1, <1>2, <1>3, <1>4, BlockAssumption DEF Agree
  <1> QED BY <1>5, <1>6 DEF Both, in1, out1

(* A turn connects no terminal of the galaxy a second time.                *)
LEMMA JoinedOnce ==
    ASSUME NEW S \in SUBSET Block, NEW net \in Net,
           Once(S, net.inputs), Once(S, net.outputs),
           NEW b \in S, NEW i \in Port
    PROVE  Once(S, Joined(net, b, i).inputs) /\ Once(S, Joined(net, b, i).outputs)
  <1> DEFINE in == net.inputs
             out == net.outputs
             meet == in[b][i] # None /\ out[b][i] # None /\ in[b][i][1] # out[b][i][1]
             in1 == Joined(net, b, i).inputs
             out1 == Joined(net, b, i).outputs
  <1>1. \A d \in Block, p \in Port, x \in Block \cup {Galaxy}, q \in Port :
           /\ Leads(in1, d, p, x, q) <=>
                IF Leads(out, b, i, d, p) THEN meet /\ Leads(in, b, i, x, q)
                ELSE ~(b = d /\ i = p) /\ Leads(in, d, p, x, q)
           /\ Leads(out1, d, p, x, q) <=>
                IF Leads(in, b, i, d, p) THEN meet /\ Leads(out, b, i, x, q)
                ELSE ~(b = d /\ i = p) /\ Leads(out, d, p, x, q)
    BY JoinedLeads
  <1>2. \A e, f \in Block, q, r \in Port :
           /\ Leads(in, b, i, e, q) /\ Leads(in, b, i, f, r) => e = f /\ q = r
           /\ Leads(out, b, i, e, q) /\ Leads(out, b, i, f, r) => e = f /\ q = r
    BY LeadsOnce
  <1>3. Galaxy \in Block \cup {Galaxy} /\ b \in Block /\ S \subseteq Block
    OBVIOUS
  <1> HIDE DEF in, out, meet, in1, out1
  <1>4. \A d \in Block, p, k \in Port :
           /\ Leads(in1, d, p, Galaxy, k) =>
                \/ Leads(out, b, i, d, p) /\ Leads(in, b, i, Galaxy, k)
                \/ ~(b = d /\ i = p) /\ Leads(in, d, p, Galaxy, k)
           /\ Leads(out1, d, p, Galaxy, k) =>
                \/ Leads(in, b, i, d, p) /\ Leads(out, b, i, Galaxy, k)
                \/ ~(b = d /\ i = p) /\ Leads(out, d, p, Galaxy, k)
    BY <1>1, <1>3
  <1>5. Once(S, in) /\ Once(S, out)
    BY DEF in, out
  <1>6. Once(S, in1)
    BY <1>2, <1>3, <1>4, <1>5 DEF Once
  <1>7. Once(S, out1)
    BY <1>2, <1>3, <1>4, <1>5 DEF Once
  <1> QED BY <1>6, <1>7 DEF in1, out1

(* The loop of DeleteBlock: the tables after 0 to N turns.                 *)
Start == [inputs |-> inputs, outputs |-> outputs]

Loop(f, b, N) == f = [n \in 0..N |-> IF n = 0 THEN Start ELSE Joined(f[n - 1], b, n - 1)]

(* DeleteBlock's loop is defined by recursion on the number of turns; by   *)
(* induction there is a function that satisfies the equation.              *)
LEMMA LoopRuns ==
    ASSUME NEW b
    PROVE  Loop(JoinedUpTo(b), b, IO_BUFFERS)
  <1> DEFINE T == {N \in 0..IO_BUFFERS : \E f : Loop(f, b, N)}
  <1>1. 0 \in T
    <2>1. Loop([n \in 0..0 |-> Start], b, 0)
      BY DEF Loop
    <2> QED BY <2>1, PortAssumption
  <1>2. ASSUME NEW N \in 0..(IO_BUFFERS - 1), N \in T
        PROVE  N + 1 \in T
    <2>1. PICK f : Loop(f, b, N)
      BY <1>2
    <2> DEFINE g == [n \in 0..(N + 1) |-> IF n <= N THEN f[n] ELSE Joined(f[N], b, N)]
    <2>2. \A n \in 0..N : f[n] = IF n = 0 THEN Start ELSE Joined(f[n - 1], b, n - 1)
      BY <2>1 DEF Loop
    <2>3. \A n \in 0..(N + 1) : g[n] = IF n = 0 THEN Start ELSE Joined(g[n - 1], b, n - 1)
      <3> SUFFICES ASSUME NEW n \in 0..(N + 1)
                   PROVE  g[n] = IF n = 0 THEN Start ELSE Joined(g[n - 1], b, n - 1)
        OBVIOUS
      <3>1. CASE n = 0
        BY <2>2, <3>1
      <3>2. CASE n \in 1..N
        <4>1. g[n] = f[n] /\ g[n - 1] = f[n - 1]
          BY <3>2
        <4> QED BY <2>2, <3>2, <4>1
      <3>3. CASE n = N + 1
        <4>1. g[n] = Joined(f[N], b, N) /\ g[n - 1] = f[N] /\ n - 1 = N /\ n # 0
          BY <3>3
        <4> HIDE DEF g
        <4> QED BY <4>1
      <3> QED BY <3>1, <3>2, <3>3
    <2>4. g = [n \in 0..(N + 1) |-> g[n]]
      OBVIOUS
    <2>5. Loop(g, b, N + 1)
      <3> HIDE DEF g
      <3> QED BY <2>3, <2>4 DEF Loop
    <2> QED BY <2>5, PortAssumption
  <1>3. IO_BUFFERS \in T
    <2> HIDE DEF T
    <2>1. 0..IO_BUFFERS \subseteq T
      BY <1>1, <1>2, SetInduction, PortAssumption
    <2> QED BY <2>1, PortAssumption
  <1>4. \E f : Loop(f, b, IO_BUFFERS)
    BY <1>3
  <1> QED BY <1>4 DEF JoinedUpTo, Loop, Start

(* What DeleteBlock has joined when all ports are done. *)
LEMMA JoinedAllNet ==
    ASSUME inputs \in Table, outputs \in Table, NEW b \in Block,
           NEW S \in SUBSET Block, b \in S, Once(S, inputs), Once(S, outputs)
    PROVE  /\ JoinedAll(b) \in Net
           /\ Once(S, JoinedAll(b).inputs) /\ Once(S, JoinedAll(b).outputs)
           /\ Both(S, inputs, outputs) =>
                Both(S, JoinedAll(b).inputs, JoinedAll(b).outputs)
  <1> DEFINE f == JoinedUpTo(b)
             Fit(net) == /\ net \in Net
                         /\ Once(S, net.inputs) /\ Once(S, net.outputs)
                         /\ Both(S, inputs, outputs) => Both(S, net.inputs, net.outputs)
             T == {n \in 0..IO_BUFFERS : Fit(f[n])}
  <1>1. \A n \in 0..IO_BUFFERS : f[n] = IF n = 0 THEN Start ELSE Joined(f[n - 1], b, n - 1)
    BY LoopRuns DEF Loop
  <1>2. Fit(Start)
    BY DEF Start, Net
  <1>3. \A net : \A i \in Port : Fit(net) => Fit(Joined(net, b, i))
    <2> SUFFICES ASSUME NEW net, NEW i \in Port, Fit(net)
                 PROVE  Fit(Joined(net, b, i))
      OBVIOUS
    <2>1. Joined(net, b, i) \in Net
      BY JoinedPut
    <2>2. Once(S, Joined(net, b, i).inputs) /\ Once(S, Joined(net, b, i).outputs)
      BY JoinedOnce
    <2>3. Both(S, inputs, outputs) => Both(S, Joined(net, b, i).inputs, Joined(net, b, i).outputs)
      BY JoinedAgrees
    <2> QED BY <2>1, <2>2, <2>3
  <1> HIDE DEF Fit, f
  <1>4. 0 \in T
    BY <1>1, <1>2, PortAssumption
  <1>5. ASSUME NEW n \in 0..(IO_BUFFERS - 1), n \in T
        PROVE  n + 1 \in T
    <2>1. f[n + 1] = Joined(f[n], b, n) /\ n \in Port
      BY <1>1, PortAssumption DEF Port
    <2> QED BY <1>3, <1>5, <2>1, PortAssumption
  <1>6. Fit(f[IO_BUFFERS])
    <2>1. 0..IO_BUFFERS \subseteq T
      <3> HIDE DEF T
      <3> QED BY <1>4, <1>5, SetInduction, PortAssumption
    <2> QED BY <2>1, PortAssumption
  <1> QED BY <1>6 DEF Fit, f, JoinedAll

(* A connection of block c moved from port n to the free port p. *)
LEMMA Moving ==
    ASSUME NEW S \in SUBSET Block, NEW t \in Table, NEW u \in Table, Both(S, t, u),
           NEW c \in S, NEW p \in Port, NEW n \in Port, p # n,
           t[c][p] = None, NEW z \in S, NEW r \in Port, t[c][n] = <<z, r>>
    PROVE  Both(S, Put(Put(t, <<c, p>>, <<z, r>>), <<c, n>>, None), Put(u, <<z, r>>, <<c, p>>))
  <1> DEFINE t0 == Put(t, <<c, p>>, <<z, r>>)
             t1 == Put(t0, <<c, n>>, None)
             u1 == Put(u, <<z, r>>, <<c, p>>)
  <1>1. t0 \in Table
    BY PutType, NotAnEnd
  <1>2. \A d, x \in Block, q, k \in Port :
           /\ Leads(t0, d, q, x, k) <=> IF c = d /\ p = q THEN z = x /\ r = k ELSE Leads(t, d, q, x, k)
           /\ Leads(u1, d, q, x, k) <=> IF z = d /\ r = q THEN c = x /\ p = k ELSE Leads(u, d, q, x, k)
    BY PutLeads
  <1>3. \A d, x \in Block, q, k \in Port :
           Leads(t1, d, q, x, k) <=> ~(c = d /\ n = q) /\ Leads(t0, d, q, x, k)
    BY <1>1, PutNone
  <1>4. Leads(t, c, n, z, r) /\ \A x \in Block, k \in Port : ~Leads(t, c, p, x, k)
    BY FreeLeads DEF Leads
  <1>5. \A d, e, f \in Block, q, k, l \in Port :
           /\ Leads(t, d, q, e, k) /\ Leads(t, d, q, f, l) => e = f /\ k = l
           /\ Leads(u, d, q, e, k) /\ Leads(u, d, q, f, l) => e = f /\ k = l
    BY LeadsOnce
  <1> HIDE DEF t0, t1, u1
  <1>6. Agree(S, t1, u1)
    BY <1>2, <1>3, <1>4, <1>5 DEF Both, Agree
  <1>7. Agree(S, u1, t1)
    BY <1>2, <1>3, <1>4, <1>5 DEF Both, Agree
  <1> QED BY <1>6, <1>7 DEF Both, t0, t1, u1

(* The terminals of the galaxy. *)
LEMMA OncePut ==
    ASSUME NEW S \in SUBSET Block, NEW t \in Table, Once(S, t),
           NEW e \in End \cup {None}, NEW v,
           \A b \in S, p, k \in Port : v = <<Galaxy, k>> => ~Leads(t, b, p, Galaxy, k)
    PROVE  Once(S, Put(t, e, v))
  <1>1. \A b \in S, p, k \in Port :
           Leads(Put(t, e, v), b, p, Galaxy, k) <=>
             IF e = <<b, p>> THEN v = <<Galaxy, k>> ELSE Leads(t, b, p, Galaxy, k)
    <2> SUFFICES ASSUME NEW b \in S, NEW p \in Port, NEW k \in Port
                 PROVE  Leads(Put(t, e, v), b, p, Galaxy, k) <=>
                          IF e = <<b, p>> THEN v = <<Galaxy, k>> ELSE Leads(t, b, p, Galaxy, k)
      OBVIOUS
    <2>1. Put(t, e, v)[b][p] = IF e = <<b, p>> THEN v ELSE t[b][p]
      BY PutAt
    <2> QED BY <2>1 DEF Leads
  <1>2. \A b, c \in S, p, q \in Port : e = <<b, p>> /\ e = <<c, q>> => b = c /\ p = q
    OBVIOUS
  <1> QED BY <1>1, <1>2 DEF Once

(* The connection at port n of block z moved to a port of block c.         *)
LEMMA OnceMoved ==
    ASSUME NEW S \in SUBSET Block, NEW t \in Table, Once(S, t),
           NEW c \in S, NEW p \in Port, NEW z \in S, NEW n \in Port, ~(c = z /\ p = n),
           NEW v \in End \cup {None}, \A k \in Port : v # <<Galaxy, k>>
    PROVE  Once(S, Put(Put(t, <<c, p>>, t[z][n]), <<z, n>>, v))
  <1> DEFINE t0 == Put(t, <<c, p>>, t[z][n])
             t1 == Put(t0, <<z, n>>, v)
  <1>1. t0 \in Table
    BY InTable, PutType, NotAnEnd
  <1>2. \A b \in S, q, k \in Port :
           Leads(t1, b, q, Galaxy, k) => \/ c = b /\ p = q /\ Leads(t, z, n, Galaxy, k)
                                         \/ ~(z = b /\ n = q) /\ Leads(t, b, q, Galaxy, k)
    <2> SUFFICES ASSUME NEW b \in S, NEW q \in Port, NEW k \in Port, Leads(t1, b, q, Galaxy, k)
                 PROVE  \/ c = b /\ p = q /\ Leads(t, z, n, Galaxy, k)
                        \/ ~(z = b /\ n = q) /\ Leads(t, b, q, Galaxy, k)
      OBVIOUS
    <2>1. t1[b][q] = IF <<z, n>> = <<b, q>> THEN v ELSE t0[b][q]
      BY <1>1, PutAt, NotAnEnd
    <2>2. t0[b][q] = IF <<c, p>> = <<b, q>> THEN t[z][n] ELSE t[b][q]
      BY PutAt, NotAnEnd
    <2> HIDE DEF t0, t1
    <2> QED BY <2>1, <2>2 DEF Leads
  <1> HIDE DEF t0, t1
  <1>3. Once(S, t1)
    BY <1>2 DEF Once
  <1> QED BY <1>3 DEF t0, t1

(* RemoveBlock connects no terminal.                                       *)
LEMMA OnceRemoved ==
    ASSUME NEW S \in SUBSET Block, NEW t \in Table, NEW u \in Table, Once(S, t), NEW b \in S
    PROVE  Once(S \ {b}, Removed(t, u, b))
  <1>1. \A d \in Block, p, k \in Port :
           Leads(Removed(t, u, b), d, p, Galaxy, k) => Leads(t, d, p, Galaxy, k)
    BY RemovedLeads
  <1> HIDE DEF Removed
  <1> QED BY <1>1 DEF Once

(* RemoveBlock keeps a table a table.                                      *)
LEMMA RemovedType ==
    ASSUME NEW t \in Table, NEW u, NEW b
    PROVE  Removed(t, u, b) \in Table
  BY DEF Removed, Table

(* Puts at two blocks in either order.                                     *)
LEMMA PutSwap ==
    ASSUME NEW t \in Table, NEW c \in Block, NEW z \in Block, c # z,
           NEW p \in Port, NEW q \in Port, NEW v, NEW w
    PROVE  Put(Put(t, <<c, p>>, v), <<z, q>>, w) = Put(Put(t, <<z, q>>, w), <<c, p>>, v)
  BY NotAnEnd, BlockAssumption DEF Put, IsAt, Table

(* The port a command uses is one of the free ones.                        *)
LEMMA ChosenFree ==
    ASSUME NEW free \in SUBSET Port, NEW number, NEW x \in Chosen(number, free)
    PROVE  x \in free
  <1>1. free \in SUBSET Nat
    BY PortAssumption DEF Port
  <1> QED BY <1>1, MinIn DEF Chosen

(* A connection that LineDisConnect cuts is one that a table knows.        *)
LEMMA SelectedLeads ==
    ASSUME NEW from, NEW to, NEW o, NEW i, NEW c \in Selected(from, to, o, i)
    PROVE  /\ c[1] \in Port /\ c[2] \in Port
           /\ \/ from # Galaxy /\ Leads(outputs, from, c[1], to, c[2])
              \/ to # Galaxy /\ Leads(inputs, to, c[2], from, c[1])
  <1>1. c \in WrittenOut(from, to) \cup WrittenIn(from, to)
    BY DEF Selected
  <1> QED BY <1>1 DEF WrittenOut, WrittenIn, Leads

------------------------------------------------------------------------------
(* The invariant.  An insert that has written over a connection, broken,   *)
(* ends the agreement, and only that.                                      *)
Connected(S, in, out, broken) ==
    /\ in \in Table /\ out \in Table
    /\ Once(S, in) /\ Once(S, out)
    /\ broken \in BOOLEAN
    /\ ~broken => Both(S, in, out)

Located ==
    /\ blocks \subseteq Block
    /\ current \in blocks \cup {None}
    /\ (current = None) = (blocks = {})
    /\ contig \in 0..Idle
    /\ contig # Idle => current # None

IInv == Located /\ Connected(blocks, inputs, outputs, clobbered)

(* A table without connections.                                            *)
LEMMA EmptyTable ==
    ASSUME NEW t, t = [b \in Block |-> [p \in Port |-> None]]
    PROVE  /\ t \in Table
           /\ \A b \in Block, p \in Port, c \in Block \cup {Galaxy}, q \in Port : ~Leads(t, b, p, c, q)
  BY NotAnEnd DEF Table, Leads

(* It agrees with itself.                                                  *)
LEMMA EmptyConnected ==
    ASSUME NEW S \in SUBSET Block, NEW broken \in BOOLEAN,
           NEW t, t = [b \in Block |-> [p \in Port |-> None]]
    PROVE  Connected(S, t, t, broken)
  <1>1. /\ t \in Table
        /\ \A b \in Block, p \in Port, c \in Block \cup {Galaxy}, q \in Port : ~Leads(t, b, p, c, q)
    BY EmptyTable
  <1>2. \A b \in S, p, k \in Port : ~Leads(t, b, p, Galaxy, k)
    BY <1>1
  <1> QED BY <1>1, <1>2 DEF Connected, Once, Both, Agree

(* The positions of makecontig.                                            *)
LEMMA IdleNat == Idle \in Nat /\ Idle - 2 \in 0..Idle /\ 0 \in 0..Idle
  BY PortAssumption DEF Idle

(* The initial state satisfies the invariant.                              *)
LEMMA InitOK == Init => IInv
  <1> SUFFICES ASSUME Init PROVE IInv
    OBVIOUS
  <1>1. Connected(blocks, inputs, outputs, clobbered)
    BY EmptyConnected DEF Init
  <1>2. Located
    BY IdleNat DEF Init, Located
  <1> QED BY <1>1, <1>2 DEF IInv

(* block and hblock: the rows of the block created are empty, and so       *)
(* nothing leads to it that it does not know.                              *)
LEMMA CreateBlockOK ==
    ASSUME IInv, NEW b \in Block, CreateBlock(b)
    PROVE  IInv'
  <1>1. Located'
    BY BlockAssumption DEF IInv, Located, CreateBlock
  <1>2. inputs' \in Table /\ outputs' \in Table
    BY DEF IInv, Connected, CreateBlock, Table
  <1>3. \A d \in Block, p \in Port, c \in Block \cup {Galaxy}, q \in Port :
           /\ Leads(inputs', d, p, c, q) <=> d # b /\ Leads(inputs, d, p, c, q)
           /\ Leads(outputs', d, p, c, q) <=> d # b /\ Leads(outputs, d, p, c, q)
    BY NotAnEnd DEF IInv, Connected, CreateBlock, Table, Leads
  <1>4. blocks' = blocks \cup {b} /\ b \notin blocks /\ blocks \subseteq Block /\ clobbered' = clobbered
    BY DEF IInv, Located, CreateBlock
  <1>5. \A d \in Block, p, k \in Port :
           /\ Leads(inputs', d, p, Galaxy, k) => d # b /\ Leads(inputs, d, p, Galaxy, k)
           /\ Leads(outputs', d, p, Galaxy, k) => d # b /\ Leads(outputs, d, p, Galaxy, k)
    BY <1>3
  <1>6. Once(blocks', inputs') /\ Once(blocks', outputs')
    BY <1>4, <1>5 DEF IInv, Connected, Once
  <1>7. ~clobbered => Both(blocks', inputs', outputs')
    BY <1>3, <1>4 DEF IInv, Connected, Both, Agree
  <1> QED BY <1>1, <1>2, <1>4, <1>6, <1>7 DEF IInv, Connected

(* Nobody is connected to a terminal at which FindInput or FindOutput      *)
(* finds no block.                                                         *)
LEMMA AtTerminal ==
    ASSUME NEW k \in Port
    PROVE  /\ AtInput(k) = {} => \A b \in blocks, p \in Port : ~Leads(inputs, b, p, Galaxy, k)
           /\ AtOutput(k) = {} => \A b \in blocks, p \in Port : ~Leads(outputs, b, p, Galaxy, k)
  <1>1. \A b \in blocks, p \in Port :
           /\ inputs[b][p] = <<Galaxy, k>> => <<b, p>> \in AtInput(k)
           /\ outputs[b][p] = <<Galaxy, k>> => <<b, p>> \in AtOutput(k)
    BY DEF AtInput, AtOutput
  <1> QED BY <1>1 DEF Leads

(* connect keeps the invariant.                                            *)
LEMMA LineConnectOK ==
    ASSUME IInv, NEW from, NEW to, NEW oNum, NEW iNum, LineConnect(from, to, oNum, iNum)
    PROVE  IInv'
  <1>1. PICK o \in Chosen(oNum, FreeOut(from)), i \in Chosen(iNum, FreeIn(to)) :
           /\ outputs' = Put(outputs, <<from, o>>, <<to, i>>)
           /\ inputs' = Put(inputs, <<to, i>>, <<from, o>>)
    BY DEF LineConnect
  <1>2. /\ from \in blocks \cup {Galaxy} /\ to \in blocks \cup {Galaxy}
        /\ ~(from = Galaxy /\ to = Galaxy)
        /\ blocks \subseteq Block
        /\ blocks' = blocks /\ current' = current /\ contig' = contig /\ clobbered' = clobbered
    BY DEF LineConnect, IInv, Located
  <1>3. o \in FreeOut(from) /\ i \in FreeIn(to) /\ o \in Port /\ i \in Port
    <2>1. FreeOut(from) \in SUBSET Port /\ FreeIn(to) \in SUBSET Port
      BY DEF FreeOut, FreeIn
    <2> QED BY <2>1, ChosenFree
  <1>4. /\ from # Galaxy => outputs[from][o] = None
        /\ to # Galaxy => inputs[to][i] = None
        /\ from = Galaxy => AtInput(o) = {}
        /\ to = Galaxy => AtOutput(i) = {}
    BY <1>3 DEF FreeOut, FreeIn
  <1>5. /\ inputs \in Table /\ outputs \in Table /\ Once(blocks, inputs) /\ Once(blocks, outputs)
        /\ clobbered \in BOOLEAN
        /\ ~clobbered => Both(blocks, inputs, outputs)
    BY DEF IInv, Connected
  <1>6. <<from, o>> \in End /\ <<to, i>> \in End
    BY <1>2, <1>3, NotAnEnd
  <1>7. inputs' \in Table /\ outputs' \in Table
    BY <1>1, <1>5, <1>6, PutType
  <1>8. Once(blocks, inputs')
    <2>1. \A b \in blocks, p, k \in Port :
             <<from, o>> = <<Galaxy, k>> => ~Leads(inputs, b, p, Galaxy, k)
      BY <1>4, AtTerminal
    <2> QED BY <1>1, <1>2, <1>5, <1>6, <2>1, OncePut
  <1>9. Once(blocks, outputs')
    <2>1. \A b \in blocks, p, k \in Port :
             <<to, i>> = <<Galaxy, k>> => ~Leads(outputs, b, p, Galaxy, k)
      BY <1>4, AtTerminal
    <2> QED BY <1>1, <1>2, <1>5, <1>6, <2>1, OncePut
  <1>10. ASSUME ~clobbered PROVE Both(blocks, inputs', outputs')
    <2>1. Both(blocks, inputs, outputs)
      BY <1>5, <1>10
    <2>2. Both(blocks, Put(inputs, <<to, i>>, <<from, o>>), Put(outputs, <<from, o>>, <<to, i>>))
      BY <1>2, <1>3, <1>4, <1>5, <2>1, Joining
    <2> QED BY <1>1, <2>2
  <1>11. Located'
    BY <1>2 DEF IInv, Located
  <1> QED BY <1>2, <1>5, <1>7, <1>8, <1>9, <1>10, <1>11 DEF IInv, Connected

(* disconnect keeps the invariant.                                         *)
LEMMA LineDisConnectOK ==
    ASSUME IInv, NEW from, NEW to, NEW oNum, NEW iNum, LineDisConnect(from, to, oNum, iNum)
    PROVE  IInv'
  <1>1. PICK c \in Selected(from, to, oNum, iNum) :
           /\ outputs' = Put(outputs, <<from, c[1]>>, None)
           /\ inputs' = Put(inputs, <<to, c[2]>>, None)
    BY DEF LineDisConnect
  <1>2. /\ from \in blocks \cup {Galaxy} /\ to \in blocks \cup {Galaxy}
        /\ blocks \subseteq Block
        /\ blocks' = blocks /\ current' = current /\ contig' = contig /\ clobbered' = clobbered
    BY DEF LineDisConnect, IInv, Located
  <1>3. /\ c[1] \in Port /\ c[2] \in Port
        /\ \/ from # Galaxy /\ Leads(outputs, from, c[1], to, c[2])
           \/ to # Galaxy /\ Leads(inputs, to, c[2], from, c[1])
    BY SelectedLeads
  <1>5. /\ inputs \in Table /\ outputs \in Table /\ Once(blocks, inputs) /\ Once(blocks, outputs)
        /\ clobbered \in BOOLEAN
        /\ ~clobbered => Both(blocks, inputs, outputs)
    BY DEF IInv, Connected
  <1>6. <<from, c[1]>> \in End /\ <<to, c[2]>> \in End
    BY <1>2, <1>3, NotAnEnd
  <1>7. inputs' \in Table /\ outputs' \in Table
    BY <1>1, <1>5, <1>6, PutType
  <1>8. Once(blocks, inputs') /\ Once(blocks, outputs')
    <2>1. \A k \in Port : None # <<Galaxy, k>>
      BY NotAnEnd
    <2> QED BY <1>1, <1>2, <1>5, <1>6, <2>1, OncePut
  <1>10. ASSUME ~clobbered PROVE Both(blocks, inputs', outputs')
    <2>1. Both(blocks, inputs, outputs)
      BY <1>5, <1>10
    <2>2. Both(blocks, Put(inputs, <<to, c[2]>>, None), Put(outputs, <<from, c[1]>>, None))
      BY <1>2, <1>3, <1>5, <2>1, Cutting
    <2> QED BY <1>1, <2>2
  <1>11. Located'
    BY <1>2 DEF IInv, Located
  <1> QED BY <1>2, <1>5, <1>7, <1>8, <1>10, <1>11 DEF IInv, Connected

(* The ports an insert uses, and the tables it leaves. *)
Inserted == Connected(blocks, inputs', outputs', clobbered')

(* What an insert starts from: its input is free, its output is a port.    *)
LEMMA InsertPorts ==
    ASSUME IInv, CanInsert
    PROVE  /\ current \in blocks /\ current \in Block /\ current # Galaxy /\ blocks \subseteq Block
           /\ cbInNum \in Port /\ inputs[current][cbInNum] = None
           /\ cbOutNum \in Port
           /\ inputs \in Table /\ outputs \in Table /\ Once(blocks, inputs) /\ Once(blocks, outputs)
           /\ clobbered \in BOOLEAN
           /\ ~clobbered => Both(blocks, inputs, outputs)
           /\ Port \subseteq Nat
  <1>1. current \in blocks /\ current \in Block /\ current # Galaxy /\ blocks \subseteq Block
    BY BlockAssumption DEF IInv, Located, CanInsert
  <1>2. Port \subseteq Nat
    BY PortAssumption DEF Port
  <1>3. FreeIn(current) = {p \in Port : inputs[current][p] = None}
    BY <1>1 DEF FreeIn
  <1>4. cbInNum \in FreeIn(current) /\ cbOutNum \in FreeIn(current)
    <2>1. FreeIn(current) \in SUBSET Nat /\ FreeIn(current) # {}
      BY <1>2, <1>3 DEF CanInsert
    <2>2. Min(FreeIn(current)) \in FreeIn(current)
      BY <2>1, MinIn
    <2> QED BY <1>3, <2>2 DEF cbInNum, cbOutNum
  <1> QED BY <1>1, <1>2, <1>3, <1>4 DEF IInv, Connected

(* The current block in front of an input; when its output is in use, that *)
(* connection is lost and recorded in clobbered.                           *)
LEMMA InsertBeforeOK ==
    ASSUME IInv, CanInsert, NEW z \in blocks, NEW n \in Port, InsertBefore(z, n)
    PROVE  Inserted
  <1> DEFINE c == current
             a == cbInNum
             o == cbOutNum
             far == inputs[z][n]
  <1>1. /\ c \in blocks /\ c \in Block /\ c # Galaxy /\ blocks \subseteq Block
        /\ a \in Port /\ inputs[c][a] = None /\ o \in Port
        /\ inputs \in Table /\ outputs \in Table /\ Once(blocks, inputs) /\ Once(blocks, outputs)
        /\ clobbered \in BOOLEAN
        /\ ~clobbered => Both(blocks, inputs, outputs)
    BY InsertPorts
  <1>2. /\ z # c /\ ~IsAt(far, c) /\ z \in Block
        /\ clobbered' = (clobbered \/ outputs[c][o] # None)
    BY <1>1 DEF InsertBefore, Clobbering
  <1>3. outputs' = Put(Put(outputs, far, <<c, a>>), <<c, o>>, <<z, n>>)
    <2> DEFINE out0 == Put(outputs, far, <<c, a>>)
    <2>1. outputs' = [out0 EXCEPT ![c][o] = <<z, n>>]
      BY DEF InsertBefore
    <2> HIDE DEF c, a, o, far, out0
    <2>2. [out0 EXCEPT ![c][o] = <<z, n>>] = Put(out0, <<c, o>>, <<z, n>>)
      BY <1>1, ExceptPut
    <2> QED BY <2>1, <2>2 DEF out0
  <1>4. inputs' = Put(Put(inputs, <<c, a>>, far), <<z, n>>, <<c, o>>)
    <2> DEFINE in0 == [inputs EXCEPT ![c][a] = far]
    <2>1. inputs' = [in0 EXCEPT ![z][n] = <<c, o>>]
      BY DEF InsertBefore
    <2>2. in0 = Put(inputs, <<c, a>>, far)
      BY <1>1, ExceptPut
    <2> HIDE DEF c, a, o, far, in0
    <2>3. [in0 EXCEPT ![z][n] = <<c, o>>] = Put(in0, <<z, n>>, <<c, o>>)
      BY <1>2, ExceptPut
    <2> QED BY <2>1, <2>2, <2>3
  <1>5. /\ far \in End \cup {None}
        /\ <<c, a>> \in End /\ <<c, o>> \in End /\ <<z, n>> \in End
    BY <1>1, <1>2, InTable, NotAnEnd
  <1>6. \A k \in Port : <<c, a>> # <<Galaxy, k>> /\ <<c, o>> # <<Galaxy, k>> /\ <<z, n>> # <<Galaxy, k>>
    BY <1>1, <1>2, BlockAssumption
  <1> HIDE DEF c, a, o, far
  <1>7. Put(outputs, far, <<c, a>>) \in Table /\ Put(inputs, <<c, a>>, far) \in Table
    BY <1>1, <1>5, PutType
  <1>8. inputs' \in Table /\ outputs' \in Table
    BY <1>3, <1>4, <1>5, <1>7, PutType
  <1>9. Once(blocks, inputs')
    <2>1. Once(blocks, Put(Put(inputs, <<c, a>>, inputs[z][n]), <<z, n>>, <<c, o>>))
      BY <1>1, <1>2, <1>5, <1>6, OnceMoved
    <2> QED BY <1>4, <2>1 DEF far
  <1>10. Once(blocks, outputs')
    <2>1. Once(blocks, Put(outputs, far, <<c, a>>))
      BY <1>1, <1>5, <1>6, OncePut
    <2>2. Once(blocks, Put(Put(outputs, far, <<c, a>>), <<c, o>>, <<z, n>>))
      BY <1>1, <1>5, <1>6, <1>7, <2>1, OncePut
    <2> QED BY <1>3, <2>2
  <1>11. ASSUME ~clobbered' PROVE Both(blocks, inputs', outputs')
    <2>1. outputs[c][o] = None /\ Both(blocks, inputs, outputs)
      BY <1>1, <1>2, <1>11
    <2>2. Both(blocks, Put(Put(inputs, <<c, a>>, inputs[z][n]), <<z, n>>, <<c, o>>),
                       Put(Put(outputs, inputs[z][n], <<c, a>>), <<c, o>>, <<z, n>>))
      BY <1>1, <1>2, <2>1, Inserting DEF far
    <2> QED BY <1>3, <1>4, <2>2 DEF far
  <1>12. clobbered' \in BOOLEAN
    BY <1>1, <1>2
  <1> QED BY <1>8, <1>9, <1>10, <1>11, <1>12 DEF Inserted, Connected

(* The current block behind an output.                                     *)
LEMMA InsertAfterOK ==
    ASSUME IInv, CanInsert, NEW z \in blocks, NEW n \in Port, InsertAfter(z, n)
    PROVE  Inserted
  <1> DEFINE c == current
             a == cbInNum
             o == cbOutNum
             far == outputs[z][n]
             out0 == Put(outputs, <<z, n>>, <<c, a>>)
  <1>1. /\ c \in blocks /\ c \in Block /\ c # Galaxy /\ blocks \subseteq Block
        /\ a \in Port /\ inputs[c][a] = None /\ o \in Port
        /\ inputs \in Table /\ outputs \in Table /\ Once(blocks, inputs) /\ Once(blocks, outputs)
        /\ clobbered \in BOOLEAN
        /\ ~clobbered => Both(blocks, inputs, outputs)
    BY InsertPorts
  <1>2. /\ z # c /\ ~IsAt(far, c) /\ z \in Block
        /\ far # None => clobbered' = (clobbered \/ outputs[c][o] # None)
        /\ far = None => clobbered' = clobbered
    BY <1>1 DEF InsertAfter, Clobbering
  <1>3. inputs' = Put(Put(inputs, far, <<c, o>>), <<c, a>>, <<z, n>>)
    <2> DEFINE in0 == Put(inputs, far, <<c, o>>)
    <2>1. inputs' = [in0 EXCEPT ![c][a] = <<z, n>>]
      BY DEF InsertAfter
    <2> HIDE DEF c, a, o, far, in0
    <2>2. [in0 EXCEPT ![c][a] = <<z, n>>] = Put(in0, <<c, a>>, <<z, n>>)
      BY <1>1, ExceptPut
    <2> QED BY <2>1, <2>2 DEF in0
  <1>5. /\ far \in End \cup {None}
        /\ <<c, a>> \in End /\ <<c, o>> \in End /\ <<z, n>> \in End
    BY <1>1, <1>2, InTable, NotAnEnd
  <1>6. \A k \in Port : <<c, a>> # <<Galaxy, k>> /\ <<c, o>> # <<Galaxy, k>> /\ <<z, n>> # <<Galaxy, k>>
    BY <1>1, <1>2, BlockAssumption
  <1>4. /\ far = None => outputs' = out0
        /\ far # None => outputs' = Put(Put(outputs, <<c, o>>, far), <<z, n>>, <<c, a>>)
    <2> DEFINE t == [outputs EXCEPT ![z][n] = <<c, a>>]
    <2>1. outputs' = [t EXCEPT ![c][o] = IF far = None THEN t[c][o] ELSE far]
      BY DEF InsertAfter
    <2>2. t = out0
      BY <1>2, ExceptPut
    <2> HIDE DEF c, a, o, far, t
    <2>3. out0 \in Table
      BY <1>1, <1>5, PutType
    <2> HIDE DEF out0
    <2>4. far = None => outputs' = t
      BY <1>1, <2>1, <2>2, <2>3 DEF Table
    <2>5. [t EXCEPT ![c][o] = far] = Put(t, <<c, o>>, far)
      BY <1>1, ExceptPut
    <2>6. far # None => outputs' = Put(t, <<c, o>>, far)
      BY <2>1, <2>5
    <2>7. Put(out0, <<c, o>>, far) = Put(Put(outputs, <<c, o>>, far), <<z, n>>, <<c, a>>)
      BY <1>1, <1>2, PutSwap DEF out0
    <2> QED BY <2>2, <2>4, <2>6, <2>7
  <1> HIDE DEF c, a, o, far, out0
  <1>7. Put(outputs, <<c, o>>, far) \in Table /\ Put(inputs, far, <<c, o>>) \in Table /\ out0 \in Table
    BY <1>1, <1>5, PutType DEF out0
  <1>8. inputs' \in Table /\ outputs' \in Table
    <2>1. Put(Put(outputs, <<c, o>>, far), <<z, n>>, <<c, a>>) \in Table
      BY <1>5, <1>7, PutType
    <2>2. inputs' \in Table
      BY <1>3, <1>5, <1>7, PutType
    <2> QED BY <1>4, <1>7, <2>1, <2>2
  <1>9. Once(blocks, inputs')
    <2>1. Once(blocks, Put(inputs, far, <<c, o>>))
      BY <1>1, <1>5, <1>6, OncePut
    <2>2. Once(blocks, Put(Put(inputs, far, <<c, o>>), <<c, a>>, <<z, n>>))
      BY <1>1, <1>5, <1>6, <1>7, <2>1, OncePut
    <2> QED BY <1>3, <2>2
  <1>10. Once(blocks, outputs')
    <2>1. Once(blocks, out0)
      BY <1>1, <1>5, <1>6, OncePut DEF out0
    <2>2. Once(blocks, Put(Put(outputs, <<c, o>>, outputs[z][n]), <<z, n>>, <<c, a>>))
      BY <1>1, <1>2, <1>5, <1>6, OnceMoved
    <2> QED BY <1>4, <2>1, <2>2 DEF far
  <1>11. ASSUME ~clobbered' PROVE Both(blocks, inputs', outputs')
    <2>1. ~clobbered /\ Both(blocks, inputs, outputs)
      BY <1>1, <1>2, <1>11
    <2>2. CASE far = None
      <3>1. Put(inputs, far, <<c, o>>) = inputs
        BY <2>2 DEF Put
      <3>2. Both(blocks, Put(inputs, <<c, a>>, <<z, n>>), Put(outputs, <<z, n>>, <<c, a>>))
        BY <1>1, <1>2, <2>1, <2>2, Joining DEF far
      <3> QED BY <1>3, <1>4, <2>2, <3>1, <3>2 DEF out0
    <2>3. CASE far # None
      <3>1. outputs[c][o] = None /\ Both(blocks, outputs, inputs)
        BY <1>1, <1>2, <1>11, <2>1, <2>3 DEF Both
      <3>2. Both(blocks, Put(Put(outputs, <<c, o>>, outputs[z][n]), <<z, n>>, <<c, a>>),
                         Put(Put(inputs, outputs[z][n], <<c, o>>), <<c, a>>, <<z, n>>))
        BY <1>1, <1>2, <3>1, Inserting DEF far
      <3> QED BY <1>3, <1>4, <2>3, <3>2 DEF far, Both
    <2> QED BY <2>2, <2>3
  <1>12. clobbered' \in BOOLEAN
    BY <1>1, <1>2
  <1> QED BY <1>8, <1>9, <1>10, <1>11, <1>12 DEF Inserted, Connected

(* The current block behind a free input terminal of the galaxy.           *)
LEMMA InsertInputOK ==
    ASSUME IInv, CanInsert, NEW k \in Port, AtInput(k) = {},
           inputs' = Put(inputs, <<current, cbInNum>>, <<Galaxy, k>>),
           UNCHANGED <<outputs, clobbered>>
    PROVE  Inserted
  <1>1. /\ current \in blocks /\ current \in Block /\ current # Galaxy /\ blocks \subseteq Block
        /\ cbInNum \in Port /\ inputs[current][cbInNum] = None
        /\ inputs \in Table /\ outputs \in Table /\ Once(blocks, inputs) /\ Once(blocks, outputs)
        /\ clobbered \in BOOLEAN
        /\ ~clobbered => Both(blocks, inputs, outputs)
    BY InsertPorts
  <1>2. inputs' = Put(inputs, <<current, cbInNum>>, <<Galaxy, k>>)
    OBVIOUS
  <1>3. <<current, cbInNum>> \in End /\ <<Galaxy, k>> \in End
    BY <1>1, NotAnEnd
  <1>4. inputs' \in Table
    <2>1. Put(inputs, <<current, cbInNum>>, <<Galaxy, k>>) \in Table
      BY <1>1, <1>3, PutType
    <2> QED BY <1>2, <2>1
  <1>5. Once(blocks, inputs')
    <2>1. \A b \in blocks, p, j \in Port :
             <<Galaxy, k>> = <<Galaxy, j>> => ~Leads(inputs, b, p, Galaxy, j)
      BY AtTerminal
    <2>2. Once(blocks, Put(inputs, <<current, cbInNum>>, <<Galaxy, k>>))
      BY <1>1, <1>3, <2>1, OncePut
    <2> QED BY <1>2, <2>2
  <1>6. ASSUME ~clobbered PROVE Both(blocks, inputs', outputs)
    <2>1. Both(blocks, Put(inputs, <<current, cbInNum>>, <<Galaxy, k>>),
                       Put(outputs, <<Galaxy, k>>, <<current, cbInNum>>))
      BY <1>1, <1>6, Joining
    <2>2. Put(outputs, <<Galaxy, k>>, <<current, cbInNum>>) = outputs
      BY <1>3, NotAnEnd DEF Put, IsAt
    <2> QED BY <1>2, <2>1, <2>2
  <1> QED BY <1>1, <1>4, <1>5, <1>6 DEF Inserted, Connected

(* The current block in front of a free output terminal.                   *)
LEMMA InsertOutputOK ==
    ASSUME IInv, CanInsert, NEW k \in Port, AtOutput(k) = {},
           outputs' = Put(outputs, <<current, cbOutNum>>, <<Galaxy, k>>),
           Clobbering, UNCHANGED inputs
    PROVE  Inserted
  <1>1. /\ current \in blocks /\ current \in Block /\ current # Galaxy /\ blocks \subseteq Block
        /\ cbOutNum \in Port
        /\ inputs \in Table /\ outputs \in Table /\ Once(blocks, inputs) /\ Once(blocks, outputs)
        /\ clobbered \in BOOLEAN
        /\ ~clobbered => Both(blocks, inputs, outputs)
    BY InsertPorts
  <1>2. outputs' = Put(outputs, <<current, cbOutNum>>, <<Galaxy, k>>)
    OBVIOUS
  <1>3. <<current, cbOutNum>> \in End /\ <<Galaxy, k>> \in End
    BY <1>1, NotAnEnd
  <1>4. outputs' \in Table
    <2>1. Put(outputs, <<current, cbOutNum>>, <<Galaxy, k>>) \in Table
      BY <1>1, <1>3, PutType
    <2> QED BY <1>2, <2>1
  <1>5. Once(blocks, outputs')
    <2>1. \A b \in blocks, p, j \in Port :
             <<Galaxy, k>> = <<Galaxy, j>> => ~Leads(outputs, b, p, Galaxy, j)
      BY AtTerminal
    <2>2. Once(blocks, Put(outputs, <<current, cbOutNum>>, <<Galaxy, k>>))
      BY <1>1, <1>3, <2>1, OncePut
    <2> QED BY <1>2, <2>2
  <1>6. ASSUME ~clobbered' PROVE Both(blocks, inputs, outputs')
    <2>0. ~clobbered /\ outputs[current][cbOutNum] = None
      BY <1>6 DEF Clobbering
    <2>1. Both(blocks, Put(inputs, <<Galaxy, k>>, <<current, cbOutNum>>),
                       Put(outputs, <<current, cbOutNum>>, <<Galaxy, k>>))
      BY <1>1, <2>0, Joining
    <2>2. Put(inputs, <<Galaxy, k>>, <<current, cbOutNum>>) = inputs
      BY <1>3, NotAnEnd DEF Put, IsAt
    <2> QED BY <1>2, <2>1, <2>2
  <1> QED BY <1>1, <1>4, <1>5, <1>6 DEF Inserted, Connected, Clobbering

(* insert keeps the invariant.                                             *)
LEMMA LineInsertOK ==
    ASSUME IInv, NEW k \in Port, LineInsert(k)
    PROVE  IInv'
  <1>1. /\ CanInsert
        /\ blocks' = blocks /\ current' = current /\ contig' = contig
    BY DEF LineInsert, LineInsertBlock, LineInsertInput, LineInsertOutput
  <1>2. Inserted
    <2>1. ASSUME NEW b \in blocks, LineInsertBlock(b, k) PROVE Inserted
      BY <1>1, <2>1, InsertBeforeOK, InsertAfterOK DEF LineInsertBlock
    <2>2. ASSUME LineInsertInput(k) PROVE Inserted
      <3>1. \A e \in AtInput(k) : e[1] \in blocks /\ e[2] \in Port
        BY DEF AtInput
      <3>2. [inputs EXCEPT ![current][cbInNum] = <<Galaxy, k>>]
              = Put(inputs, <<current, cbInNum>>, <<Galaxy, k>>)
        BY <1>1, InsertPorts, ExceptPut
      <3> QED BY <1>1, <2>2, <3>1, <3>2, InsertInputOK, InsertBeforeOK DEF LineInsertInput
    <2>3. ASSUME LineInsertOutput(k) PROVE Inserted
      <3>1. \A e \in AtOutput(k) : e[1] \in blocks /\ e[2] \in Port
        BY DEF AtOutput
      <3>2. [outputs EXCEPT ![current][cbOutNum] = <<Galaxy, k>>]
              = Put(outputs, <<current, cbOutNum>>, <<Galaxy, k>>)
        BY <1>1, InsertPorts, ExceptPut
      <3> QED BY <1>1, <2>3, <3>1, <3>2, InsertOutputOK, InsertAfterOK DEF LineInsertOutput
    <2> QED BY <2>1, <2>2, <2>3 DEF LineInsert
  <1>3. Located'
    BY <1>1 DEF IInv, Located
  <1> QED BY <1>1, <1>2, <1>3 DEF IInv, Inserted

(* The tables RemoveBlock leaves are connected as the invariant says.      *)
LEMMA RemovedOK ==
    ASSUME NEW S \in SUBSET Block, NEW in \in Table, NEW out \in Table,
           Once(S, in), Once(S, out), NEW broken \in BOOLEAN, ~broken => Both(S, in, out),
           NEW b \in S
    PROVE  Connected(S \ {b}, Removed(in, out, b), Removed(out, in, b), broken)
  BY OnceRemoved, RemovedType, Removing DEF Connected

(* The block that is current after a removal is in the list.               *)
LEMMA MoveOnOK ==
    ASSUME IInv, contig = Idle, current # None, blocks' = blocks \ {current}, MoveOn(current),
           contig' = contig
    PROVE  Located'
  <1>1. current \in blocks /\ blocks \subseteq Block /\ None \notin Block
    BY BlockAssumption DEF IInv, Located
  <1>2. CASE blocks = {current}
    BY <1>1, <1>2 DEF MoveOn, IInv, Located
  <1>3. CASE blocks # {current}
    BY <1>1, <1>3 DEF MoveOn, IInv, Located
  <1> QED BY <1>2, <1>3

(* remove keeps the invariant.                                             *)
LEMMA L_removeOK ==
    ASSUME IInv, L_remove
    PROVE  IInv'
  <1>1. Located'
    BY MoveOnOK DEF L_remove
  <1>2. Connected(blocks \ {current}, Removed(inputs, outputs, current),
                  Removed(outputs, inputs, current), clobbered)
    BY RemovedOK DEF IInv, Connected, Located, L_remove
  <1> QED BY <1>1, <1>2 DEF IInv, L_remove

(* delete keeps the invariant: the loop does, and then RemoveBlock.        *)
LEMMA L_deleteOK ==
    ASSUME IInv, L_delete
    PROVE  IInv'
  <1>1. Located'
    BY MoveOnOK DEF L_delete
  <1> DEFINE net == JoinedAll(current)
  <1>2. /\ net \in Net
        /\ Once(blocks, net.inputs) /\ Once(blocks, net.outputs)
        /\ ~clobbered => Both(blocks, net.inputs, net.outputs)
    BY JoinedAllNet DEF IInv, Connected, Located, L_delete
  <1>3. Connected(blocks \ {current}, Removed(net.inputs, net.outputs, current),
                  Removed(net.outputs, net.inputs, current), clobbered)
    <2> HIDE DEF net
    <2> QED BY <1>2, RemovedOK DEF IInv, Connected, Located, L_delete, Net
  <1> QED BY <1>1, <1>3 DEF IInv, L_delete

(* new keeps the invariant.                                                *)
LEMMA L_newOK ==
    ASSUME IInv, L_new
    PROVE  IInv'
  <1>1. Located'
    BY DEF IInv, Located, L_new
  <1>2. Connected(blocks', inputs', inputs', clobbered')
    BY EmptyConnected DEF IInv, Connected, L_new
  <1>3. inputs' = outputs'
    BY DEF L_new
  <1> QED BY <1>1, <1>2, <1>3 DEF IInv

(* makecontig at a port: its bounds, and the connection behind the gap. *)
LEMMA ContigPort ==
    ASSUME contig \in 0..Idle, contig \div 2 + 1 \in Port
    PROVE  contig \div 2 \in Port
  BY PortAssumption DEF Port, Idle

(* A step of makecontig: the tables after the connection of port n moved   *)
(* to the free port p.                                                     *)
LEMMA MovingOK ==
    ASSUME NEW S \in SUBSET Block, NEW t \in Table, NEW u \in Table,
           Once(S, t), Once(S, u), NEW broken \in BOOLEAN, ~broken => Both(S, t, u),
           NEW c \in S, NEW p \in Port, NEW n \in Port, p # n, t[c][p] = None,
           t[c][n] # None, t[c][n][1] \in S
    PROVE  LET t1 == [t EXCEPT ![c][p] = t[c][n], ![c][n] = None]
               u1 == Put(u, t[c][n], <<c, p>>)
           IN /\ t1 \in Table /\ u1 \in Table
              /\ Once(S, t1) /\ Once(S, u1)
              /\ ~broken => Both(S, t1, u1)
  <1> DEFINE end == t[c][n]
             t0 == [t EXCEPT ![c][p] = end]
             t1 == [t EXCEPT ![c][p] = end, ![c][n] = None]
             u1 == Put(u, end, <<c, p>>)
  <1>1. PICK z \in S, r \in Port : end = <<z, r>>
    BY InTable DEF End
  <1>2. t0 = Put(t, <<c, p>>, end)
    BY ExceptPut
  <1>3. t1 = Put(Put(t, <<c, p>>, end), <<c, n>>, None)
    <2>1. t1 = [t0 EXCEPT ![c][n] = None]
      OBVIOUS
    <2> HIDE DEF t0, t1
    <2>2. [t0 EXCEPT ![c][n] = None] = Put(t0, <<c, n>>, None)
      BY ExceptPut
    <2> QED BY <1>2, <2>1, <2>2
  <1>4. /\ end \in End \cup {None} /\ <<c, p>> \in End /\ <<c, n>> \in End
        /\ \A k \in Port : <<c, p>> # <<Galaxy, k>> /\ None # <<Galaxy, k>>
    BY InTable, NotAnEnd, BlockAssumption
  <1>5. Put(t, <<c, p>>, end) \in Table /\ u1 \in Table
    BY <1>4, PutType
  <1>6. Put(Put(t, <<c, p>>, end), <<c, n>>, None) \in Table
    BY <1>4, <1>5, PutType
  <1>7. Once(S, Put(Put(t, <<c, p>>, end), <<c, n>>, None))
    BY <1>4, OnceMoved
  <1>8. Once(S, u1)
    BY <1>4, OncePut
  <1>9. ASSUME ~broken
        PROVE  Both(S, Put(Put(t, <<c, p>>, end), <<c, n>>, None), u1)
    BY <1>1, <1>9, Moving
  <1> HIDE DEF end, t1, u1
  <1>10. /\ t1 \in Table /\ u1 \in Table
         /\ Once(S, t1) /\ Once(S, u1)
         /\ ~broken => Both(S, t1, u1)
    BY <1>3, <1>5, <1>6, <1>7, <1>8, <1>9
  <1> QED BY <1>10 DEF t1, u1, end

(* makecontig moves an output.                                             *)
LEMMA MoveOutputOK ==
    ASSUME IInv, MoveOutput
    PROVE  IInv'
  <1> DEFINE p == contig \div 2
  <1>1. /\ current \in blocks /\ blocks \subseteq Block
        /\ p \in Port /\ p + 1 \in Port /\ p # p + 1
        /\ outputs[current][p] = None /\ outputs[current][p + 1] # None
        /\ outputs[current][p + 1][1] \in blocks
    <2>1. p \in Port /\ p + 1 \in Port
      BY ContigPort DEF MoveOutput, IInv, Located
    <2>2. p # p + 1
      BY <2>1, PortAssumption DEF Port
    <2> QED BY <2>1, <2>2, IdleNat DEF MoveOutput, Gap, Movable, IInv, Located
  <1>2. contig + 1 \in 0..Idle
    BY IdleNat DEF IInv, Located, MoveOutput
  <1>3. Located'
    BY <1>1, <1>2, BlockAssumption DEF IInv, Located, MoveOutput
  <1> HIDE DEF p
  <1>4. LET t1 == [outputs EXCEPT ![current][p] = outputs[current][p + 1], ![current][p + 1] = None]
            u1 == Put(inputs, outputs[current][p + 1], <<current, p>>)
        IN /\ t1 \in Table /\ u1 \in Table
           /\ Once(blocks, t1) /\ Once(blocks, u1)
           /\ ~clobbered => Both(blocks, t1, u1)
    BY <1>1, MovingOK DEF IInv, Connected, Both
  <1>5. /\ outputs' = [outputs EXCEPT ![current][p] = outputs[current][p + 1], ![current][p + 1] = None]
        /\ inputs' = Put(inputs, outputs[current][p + 1], <<current, p>>)
        /\ blocks' = blocks /\ clobbered' = clobbered
    BY DEF MoveOutput, p
  <1>6. Connected(blocks', inputs', outputs', clobbered')
    BY <1>4, <1>5 DEF IInv, Connected, Both
  <1> QED BY <1>3, <1>6 DEF IInv

(* makecontig moves an input.                                              *)
LEMMA MoveInputOK ==
    ASSUME IInv, MoveInput
    PROVE  IInv'
  <1> DEFINE p == contig \div 2
  <1>1. /\ current \in blocks /\ blocks \subseteq Block
        /\ p \in Port /\ p + 1 \in Port /\ p # p + 1
        /\ inputs[current][p] = None /\ inputs[current][p + 1] # None
        /\ inputs[current][p + 1][1] \in blocks
    <2>1. p \in Port /\ p + 1 \in Port
      BY ContigPort DEF MoveInput, IInv, Located
    <2>2. p # p + 1
      BY <2>1, PortAssumption DEF Port
    <2> QED BY <2>1, <2>2, IdleNat DEF MoveInput, Gap, Movable, IInv, Located
  <1>2. contig + 1 \in 0..Idle
    BY IdleNat DEF IInv, Located, MoveInput
  <1>3. Located'
    BY <1>1, <1>2, BlockAssumption DEF IInv, Located, MoveInput
  <1> HIDE DEF p
  <1>4. LET t1 == [inputs EXCEPT ![current][p] = inputs[current][p + 1], ![current][p + 1] = None]
            u1 == Put(outputs, inputs[current][p + 1], <<current, p>>)
        IN /\ t1 \in Table /\ u1 \in Table
           /\ Once(blocks, t1) /\ Once(blocks, u1)
           /\ ~clobbered => Both(blocks, t1, u1)
    BY <1>1, MovingOK DEF IInv, Connected, Both
  <1>5. /\ inputs' = [inputs EXCEPT ![current][p] = inputs[current][p + 1], ![current][p + 1] = None]
        /\ outputs' = Put(outputs, inputs[current][p + 1], <<current, p>>)
        /\ blocks' = blocks /\ clobbered' = clobbered
    BY DEF MoveInput, p
  <1>6. Connected(blocks', inputs', outputs', clobbered')
    BY <1>4, <1>5 DEF IInv, Connected, Both
  <1> QED BY <1>3, <1>6 DEF IInv

(* The steps that leave the tables alone. *)
LEMMA TablesKept ==
    ASSUME IInv, UNCHANGED <<blocks, inputs, outputs, clobbered>>, Located'
    PROVE  IInv'
  BY DEF IInv

(* Every step keeps the invariant: one lemma for each action above, and    *)
(* here the steps that change no table.                                    *)
LEMMA StepOK == IInv /\ [Next]_vars => IInv'
  <1> SUFFICES ASSUME IInv, [Next]_vars PROVE IInv'
    OBVIOUS
  <1>1. ASSUME NEW b \in Block, CreateBlock(b) PROVE IInv'
    BY <1>1, CreateBlockOK
  <1>2. ASSUME Select PROVE IInv'
    <2>1. Located'
      BY <1>2, BlockAssumption DEF Select, IInv, Located
    <2> QED BY <1>2, <2>1, TablesKept DEF Select
  <1>3. ASSUME NEW from \in Block \cup {Galaxy}, NEW to \in Block \cup {Galaxy},
               NEW o \in Port \cup {Missing}, NEW i \in Port \cup {Missing},
               LineConnect(from, to, o, i) \/ LineDisConnect(from, to, o, i)
        PROVE  IInv'
    BY <1>3, LineConnectOK, LineDisConnectOK
  <1>4. ASSUME NEW k \in Port, LineInsert(k) PROVE IInv'
    BY <1>4, LineInsertOK
  <1>5. CASE L_remove
    BY <1>5, L_removeOK
  <1>6. CASE L_delete
    BY <1>6, L_deleteOK
  <1>7. CASE L_new
    BY <1>7, L_newOK
  <1>8. CASE L_makecontig \/ NoGap \/ Refused \/ Retest
    <2>1. contig' \in 0..Idle /\ UNCHANGED <<blocks, inputs, outputs, current, clobbered>>
      BY <1>8, IdleNat DEF L_makecontig, NoGap, Refused, Retest, IInv, Located
    <2>2. current # None
      BY <1>8, IdleNat DEF L_makecontig, NoGap, Refused, Retest, IInv, Located
    <2>3. Located'
      BY <2>1, <2>2 DEF IInv, Located
    <2> QED BY <2>1, <2>3, TablesKept
  <1>9. CASE MoveOutput
    BY <1>9, MoveOutputOK
  <1>10. CASE MoveInput
    BY <1>10, MoveInputOK
  <1>11. CASE UNCHANGED vars
    <2>1. Located'
      BY <1>11 DEF vars, IInv, Located
    <2> QED BY <1>11, <2>1, TablesKept DEF vars
  <1> QED
    BY <1>1, <1>2, <1>3, <1>4, <1>5, <1>6, <1>7, <1>8, <1>9, <1>10, <1>11 DEF Next, Renumber

(* The invariant holds in every state: blocks, current block and           *)
(* connections are consistent, whatever commands are given.                *)
THEOREM Invariant == Spec => []IInv
  BY InitOK, StepOK, PTL DEF Spec

(* Tables, current block and makecontig's position have the values the     *)
(* code expects (TypeOK).                                                  *)
THEOREM TypeCorrect == Spec => []TypeOK
  <1>1. IInv => TypeOK
    BY DEF IInv, Located, Connected, TypeOK
  <1> QED BY <1>1, Invariant, PTL

(* Agreement of the tables in the terms of Topology.                       *)
LEMMA AgreeMirrored ==
    ASSUME NEW t \in Table, NEW u \in Table, blocks \subseteq Block, Agree(blocks, t, u)
    PROVE  Mirrored(t, u)
  <1> SUFFICES ASSUME NEW b \in blocks, NEW p \in Port, t[b][p] # None, t[b][p][1] # Galaxy
               PROVE  t[b][p][1] \in blocks /\ u[t[b][p][1]][t[b][p][2]] = <<b, p>>
    BY DEF Mirrored
  <1>1. PICK c \in Block, q \in Port : t[b][p] = <<c, q>>
    BY InTable DEF End
  <1>2. Leads(t, b, p, c, q)
    BY <1>1 DEF Leads
  <1>3. c \in blocks /\ Leads(u, c, q, b, p)
    BY <1>2 DEF Agree
  <1> QED BY <1>1, <1>3 DEF Leads

(* Both ends of every connection agree as long as no insert has written    *)
(* over one (EndsAgree), for any number of blocks, ports and connections:  *)
(* no command of krn_connect.c leaves a block that reads from one that     *)
(* does not write to it.                                                   *)
THEOREM ConnectionsAgree == Spec => []EndsAgree
  <1>1. IInv => EndsAgree
    BY AgreeMirrored DEF IInv, Located, Connected, Both, EndsAgree
  <1> QED BY <1>1, Invariant, PTL

(* A set whose elements are equal has one at most.                         *)
LEMMA AtMostOne ==
    ASSUME NEW X, \A e, f \in X : e = f
    PROVE  Cardinality(X) <= 1
  <1>1. CASE X = {}
    BY <1>1, FS_EmptySet
  <1>2. CASE X # {}
    <2>1. PICK e : X = {e}
      BY <1>2
    <2> QED BY <2>1, FS_Singleton
  <1> QED BY <1>1, <1>2

(* A terminal of the galaxy is connected to one block at most              *)
(* (OneToATerminal), also after an insert that has written over a          *)
(* connection, so that FindInput and FindOutput have one answer.           *)
THEOREM TerminalsUsedOnce == Spec => []OneToATerminal
  <1>1. IInv => OneToATerminal
    <2> SUFFICES ASSUME IInv, NEW k \in Port
                 PROVE  Cardinality(AtInput(k)) <= 1 /\ Cardinality(AtOutput(k)) <= 1
      BY DEF OneToATerminal
    <2>1. \A e \in AtInput(k) : e \in blocks \X Port /\ Leads(inputs, e[1], e[2], Galaxy, k)
      BY DEF AtInput, Leads
    <2>2. \A e \in AtOutput(k) : e \in blocks \X Port /\ Leads(outputs, e[1], e[2], Galaxy, k)
      BY DEF AtOutput, Leads
    <2>3. \A e, f \in AtInput(k) : e = f
      BY <2>1 DEF IInv, Connected, Once
    <2>4. \A e, f \in AtOutput(k) : e = f
      BY <2>2 DEF IInv, Connected, Once
    <2> QED BY <2>3, <2>4, AtMostOne
  <1> QED BY <1>1, Invariant, PTL

-----------------------------------------------------------------------------
(* Two promises about single commands: makecontig keeps the current        *)
(* block's neighbours in their order, and delete repairs the connections   *)
(* through the block.  Both rest on the invariant above: a command finds   *)
(* the other end of a connection by what its own end says.                 *)

(* A row of a table with a connection moved from port n to the free port   *)
(* in front of it.                                                         *)
Row == [Port -> End \cup {None}]

(* One port more is one port more, whichever it is.                        *)
LEMMA SameCount ==
    ASSUME NEW B \in SUBSET Port, NEW p \in Port \ B, NEW n \in Port \ B
    PROVE  Cardinality(B \cup {p}) = Cardinality(B \cup {n})
  <1>1. IsFiniteSet(Port)
    BY FS_Interval, PortAssumption DEF Port
  <1>2. IsFiniteSet(B)
    BY <1>1, FS_Subset
  <1> QED BY <1>2, FS_AddElement

(* The order of the neighbours along a row does not change when a          *)
(* connection moves to the free port in front of it.                       *)
LEMMA RowMoved ==
    ASSUME NEW row \in Row, NEW p \in Port, NEW n \in Port, n = p + 1,
           row[p] = None, row[n] # None
    PROVE  Neighbours([row EXCEPT ![p] = row[n], ![n] = None]) = Neighbours(row)
  <1> DEFINE row1 == [row EXCEPT ![p] = row[n], ![n] = None]
             here == {q \in Port : row[q] # None}
             here1 == {q \in Port : row1[q] # None}
             Other(x) == {q \in here : q <= x /\ q # n}
  <1>0. Port \subseteq Nat
    BY PortAssumption DEF Port
  <1>1. /\ row1 \in Row
        /\ \A q \in Port : row1[q] = IF q = p THEN row[n] ELSE IF q = n THEN None ELSE row[q]
    BY <1>0 DEF Row
  <1> HIDE DEF row1
  <1>2. here1 = (here \ {n}) \cup {p} /\ n \in here /\ p \notin here
    BY <1>0, <1>1
  <1>3. Behind(row1, p) = Behind(row, n)
    <2>1. {q \in Port : q <= p /\ row1[p] # None /\ row1[q] # None} = Other(p) \cup {p}
      <3>1. \A q \in Port : q <= p /\ row1[p] # None /\ row1[q] # None <=> q \in Other(p) \cup {p}
        BY <1>0, <1>1
      <3> QED BY <3>1
    <2>2. {q \in Port : q <= n /\ row[n] # None /\ row[q] # None} = Other(p) \cup {n}
      <3>1. \A q \in Port : q <= n <=> q <= p \/ q = n
        BY <1>0
      <3>2. \A q \in Port : q <= n /\ row[n] # None /\ row[q] # None <=> q \in Other(p) \cup {n}
        BY <3>1, <1>0
      <3> QED BY <3>2
    <2>3. Cardinality(Other(p) \cup {p}) = Cardinality(Other(p) \cup {n})
      BY SameCount
    <2> QED BY <2>1, <2>2, <2>3 DEF Behind
  <1>4. ASSUME NEW x \in here \ {n}
        PROVE  Behind(row1, x) = Behind(row, x)
    <2>1. CASE x < p
      <3>1. \A q \in Port : q <= x => q # p /\ q # n
        BY <1>0, <2>1
      <3>2. \A q \in Port : q <= x => row1[q] = row[q]
        BY <3>1, <1>1
      <3>3. row1[x] = row[x] /\ x \in Port
        BY <3>2, <1>0
      <3>4. {q \in Port : q <= x /\ row1[x] # None /\ row1[q] # None}
              = {q \in Port : q <= x /\ row[x] # None /\ row[q] # None}
        BY <3>2, <3>3
      <3> QED BY <3>4 DEF Behind
    <2>2. CASE x > n
      <3>0. p <= x /\ n <= x /\ x # p /\ x # n /\ row1[x] = row[x] /\ x \in Port
        BY <1>0, <1>1, <2>2
      <3>1. {q \in Port : q <= x /\ row1[x] # None /\ row1[q] # None} = Other(x) \cup {p}
        <4>1. \A q \in Port : q <= x /\ row1[x] # None /\ row1[q] # None <=> q \in Other(x) \cup {p}
          BY <1>1, <3>0
        <4> QED BY <4>1
      <3>2. {q \in Port : q <= x /\ row[x] # None /\ row[q] # None} = Other(x) \cup {n}
        <4>1. \A q \in Port : q <= x /\ row[x] # None /\ row[q] # None <=> q \in Other(x) \cup {n}
          BY <3>0
        <4> QED BY <4>1
      <3>3. Cardinality(Other(x) \cup {p}) = Cardinality(Other(x) \cup {n})
        BY SameCount
      <3> QED BY <3>1, <3>2, <3>3 DEF Behind
    <2>3. x < p \/ x > n
      BY <1>0, <1>2
    <2> QED BY <2>1, <2>2, <2>3
  <1>5. <<Behind(row1, p), row1[p][1]>> = <<Behind(row, n), row[n][1]>>
    BY <1>1, <1>3
  <1>6. \A x \in here \ {n} : <<Behind(row1, x), row1[x][1]>> = <<Behind(row, x), row[x][1]>>
    BY <1>0, <1>1, <1>2, <1>4
  <1>7. Neighbours(row1) = {<<Behind(row1, x), row1[x][1]>> : x \in here1}
    BY DEF Neighbours
  <1>8. Neighbours(row) = {<<Behind(row, x), row[x][1]>> : x \in here}
    BY DEF Neighbours
  <1>9. Neighbours(row1) = Neighbours(row)
    <2> HIDE DEF here, here1
    <2> QED BY <1>2, <1>5, <1>6, <1>7, <1>8
  <1> QED BY <1>9 DEF row1

(* The row at the other end: only the number of the port changes. *)
LEMMA RowRenamed ==
    ASSUME NEW row \in Row, NEW r \in Port, row[r] # None, NEW end \in End, end[1] = row[r][1]
    PROVE  Neighbours([row EXCEPT ![r] = end]) = Neighbours(row)
  <1> DEFINE row1 == [row EXCEPT ![r] = end]
             here == {q \in Port : row[q] # None}
  <1>1. \A q \in Port : row[q] # None => row1[q][1] = row[q][1]
    BY BlockAssumption DEF Row
  <1>2. \A q \in Port : (row1[q] # None) = (row[q] # None)
    BY BlockAssumption DEF Row
  <1> HIDE DEF row1
  <1>3. {q \in Port : row1[q] # None} = here
    BY <1>2
  <1>4. \A x \in here : Behind(row1, x) = Behind(row, x) /\ row1[x][1] = row[x][1]
    <2> SUFFICES ASSUME NEW x \in here
                 PROVE  Behind(row1, x) = Behind(row, x) /\ row1[x][1] = row[x][1]
      OBVIOUS
    <2>1. {q \in Port : q <= x /\ row1[x] # None /\ row1[q] # None}
            = {q \in Port : q <= x /\ row[x] # None /\ row[q] # None}
      BY <1>2
    <2> QED BY <1>1, <2>1 DEF Behind
  <1>5. Neighbours(row1) = {<<Behind(row1, x), row1[x][1]>> : x \in here}
    BY <1>3 DEF Neighbours
  <1>6. Neighbours(row) = {<<Behind(row, x), row[x][1]>> : x \in here}
    BY DEF Neighbours
  <1>7. Neighbours(row1) = Neighbours(row)
    <2> HIDE DEF here
    <2> QED BY <1>4, <1>5, <1>6
  <1> QED BY <1>7 DEF row1

(* A connection of table t moved from port n of block c to port p in front *)
(* of it, and the other end, in table u, corrected.                        *)
MovedTo(t, u, t1, u1, c, p, n) ==
    /\ p \in Port /\ n \in Port /\ n = p + 1
    /\ t[c][p] = None /\ t[c][n] # None /\ t[c][n][1] \in Block
    /\ u[t[c][n][1]][t[c][n][2]] = <<c, n>>
    /\ t1 = [t EXCEPT ![c][p] = t[c][n], ![c][n] = None]
    /\ u1 = Put(u, t[c][n], <<c, p>>)

(* Both rows of block c when the connection at port n of one of them moves *)
(* to port p; the other end may be c itself.                               *)
LEMMA RowsMoved ==
    ASSUME NEW t \in Table, NEW u \in Table, NEW c \in Block,
           NEW t1, NEW u1, NEW p, NEW n, MovedTo(t, u, t1, u1, c, p, n)
    PROVE  Neighbours(t1[c]) = Neighbours(t[c]) /\ Neighbours(u1[c]) = Neighbours(u[c])
  <1> DEFINE end == t[c][n]
  <1>0. /\ p \in Port /\ n \in Port /\ n = p + 1
        /\ t[c][p] = None /\ end # None /\ end[1] \in Block
        /\ u[end[1]][end[2]] = <<c, n>>
        /\ t1 = [t EXCEPT ![c][p] = end, ![c][n] = None]
        /\ u1 = Put(u, end, <<c, p>>)
    BY DEF MovedTo
  <1>1. PICK z \in Block, r \in Port : end = <<z, r>>
    <2>1. end \in End
      BY <1>0, InTable
    <2> HIDE DEF end
    <2>2. PICK z \in Block \cup {Galaxy}, r \in Port : end = <<z, r>>
      BY <2>1 DEF End
    <2>3. z \in Block
      BY <1>0, <2>2
    <2> QED BY <2>2, <2>3
  <1>2. t[c] \in Row /\ u[c] \in Row
    BY DEF Table, Row
  <1>3. t1[c] = [t[c] EXCEPT ![p] = end, ![n] = None]
    BY <1>0 DEF Table
  <1>4. Neighbours(t1[c]) = Neighbours(t[c])
    BY <1>0, <1>2, <1>3, RowMoved
  <1>5. u1 = [u EXCEPT ![z] = [u[z] EXCEPT ![r] = <<c, p>>]]
    <2>1. u1 = Put(u, <<z, r>>, <<c, p>>)
      BY <1>0, <1>1
    <2>2. <<z, r>> # None /\ z # Galaxy
      BY <1>1, NotAnEnd, BlockAssumption
    <2> QED BY <2>1, <2>2 DEF Put, IsAt
  <1>6. CASE z = c
    <2>1. u1[c] = [u[c] EXCEPT ![r] = <<c, p>>]
      BY <1>5, <1>6 DEF Table
    <2>2. u[c][r] = <<c, n>> /\ <<c, n>> # None /\ <<c, p>> \in End
      BY <1>0, <1>1, <1>6, NotAnEnd
    <2>3. Neighbours(u1[c]) = Neighbours(u[c])
      BY <1>2, <2>1, <2>2, RowRenamed
    <2> QED BY <1>4, <2>3
  <1>7. CASE z # c
    <2>1. u1[c] = u[c]
      BY <1>5, <1>7 DEF Table
    <2> QED BY <1>4, <2>1
  <1> QED BY <1>6, <1>7

(* A step of makecontig leaves the order of the neighbours alone.          *)
KeptOrder == contig # Idle =>
    /\ Neighbours(inputs[current])' = Neighbours(inputs[current])
    /\ Neighbours(outputs[current])' = Neighbours(outputs[current])

(* makecontig moves an output.                                             *)
LEMMA MoveOutputKeeps ==
    ASSUME IInv, MoveOutput
    PROVE  KeptOrder
  <1> DEFINE p == contig \div 2
  <1>1. /\ current \in Block /\ p \in Port /\ p + 1 \in Port
        /\ outputs[current][p] = None /\ outputs[current][p + 1] # None
        /\ outputs[current][p + 1][1] \in Block
        /\ inputs[outputs[current][p + 1][1]][outputs[current][p + 1][2]] = <<current, p + 1>>
    <2>1. p \in Port /\ p + 1 \in Port
      BY ContigPort DEF MoveOutput, IInv, Located
    <2> QED BY <2>1, IdleNat DEF MoveOutput, Gap, Movable, IInv, Located
  <1>2. /\ outputs' = [outputs EXCEPT ![current][p] = outputs[current][p + 1], ![current][p + 1] = None]
        /\ inputs' = Put(inputs, outputs[current][p + 1], <<current, p>>)
        /\ current' = current
    BY DEF MoveOutput
  <1>3. inputs \in Table /\ outputs \in Table
    BY DEF IInv, Connected
  <1> HIDE DEF p
  <1>4. /\ Neighbours(outputs'[current]) = Neighbours(outputs[current])
        /\ Neighbours(inputs'[current]) = Neighbours(inputs[current])
    <2>1. MovedTo(outputs, inputs, outputs', inputs', current, p, p + 1)
      BY <1>1, <1>2 DEF MovedTo
    <2> QED BY <1>1, <1>3, <2>1, RowsMoved
  <1> QED BY <1>2, <1>4 DEF KeptOrder

(* makecontig moves an input.                                              *)
LEMMA MoveInputKeeps ==
    ASSUME IInv, MoveInput
    PROVE  KeptOrder
  <1> DEFINE p == contig \div 2
  <1>1. /\ current \in Block /\ p \in Port /\ p + 1 \in Port
        /\ inputs[current][p] = None /\ inputs[current][p + 1] # None
        /\ inputs[current][p + 1][1] \in Block
        /\ outputs[inputs[current][p + 1][1]][inputs[current][p + 1][2]] = <<current, p + 1>>
    <2>1. p \in Port /\ p + 1 \in Port
      BY ContigPort DEF MoveInput, IInv, Located
    <2> QED BY <2>1, IdleNat DEF MoveInput, Gap, Movable, IInv, Located
  <1>2. /\ inputs' = [inputs EXCEPT ![current][p] = inputs[current][p + 1], ![current][p + 1] = None]
        /\ outputs' = Put(outputs, inputs[current][p + 1], <<current, p>>)
        /\ current' = current
    BY DEF MoveInput
  <1>3. inputs \in Table /\ outputs \in Table
    BY DEF IInv, Connected
  <1> HIDE DEF p
  <1>4. /\ Neighbours(inputs'[current]) = Neighbours(inputs[current])
        /\ Neighbours(outputs'[current]) = Neighbours(outputs[current])
    <2>1. MovedTo(inputs, outputs, inputs', outputs', current, p, p + 1)
      BY <1>1, <1>2 DEF MovedTo
    <2> QED BY <1>1, <1>3, <2>1, RowsMoved
  <1> QED BY <1>2, <1>4 DEF KeptOrder

(* While makecontig is at work no other command is read.                   *)
LEMMA StepKeeps == IInv /\ [Next]_vars => KeptOrder
  <1> SUFFICES ASSUME IInv, [Next]_vars, contig # Idle
               PROVE  KeptOrder
    BY DEF KeptOrder
  <1>1. CASE MoveOutput
    BY <1>1, MoveOutputKeeps
  <1>2. CASE MoveInput
    BY <1>2, MoveInputKeeps
  <1>3. CASE NoGap \/ Refused \/ Retest \/ UNCHANGED vars
    BY <1>3 DEF NoGap, Refused, Retest, vars, KeptOrder
  <1>4. CASE Renumber
    BY <1>1, <1>2, <1>3, <1>4 DEF Renumber
  <1>5. ASSUME NEW b \in Block, CreateBlock(b) PROVE FALSE
    BY <1>5 DEF CreateBlock
  <1>6. ASSUME Select PROVE FALSE
    BY <1>6 DEF Select
  <1>7. ASSUME NEW from \in Block \cup {Galaxy}, NEW to \in Block \cup {Galaxy},
               NEW o \in Port \cup {Missing}, NEW i \in Port \cup {Missing},
               LineConnect(from, to, o, i) \/ LineDisConnect(from, to, o, i)
        PROVE  FALSE
    BY <1>7 DEF LineConnect, LineDisConnect
  <1>8. ASSUME NEW k \in Port, LineInsert(k) PROVE FALSE
    BY <1>8 DEF LineInsert, LineInsertBlock, LineInsertInput, LineInsertOutput, CanInsert
  <1>9. ASSUME L_remove \/ L_delete \/ L_new \/ L_makecontig PROVE FALSE
    BY <1>9 DEF L_remove, L_delete, L_new, L_makecontig
  <1> QED
    BY <1>3, <1>4, <1>5, <1>6, <1>7, <1>8, <1>9 DEF Next

(* makecontig keeps the order of the current block's connections and what   *)
(* each of them leads to, whatever the interleaving of its commands.        *)
THEOREM OrderKept == Spec => NeighboursKept
  <1>1. IInv /\ [Next]_vars
          => [contig # Idle => /\ Neighbours(inputs[current])' = Neighbours(inputs[current])
                               /\ Neighbours(outputs[current])' = Neighbours(outputs[current])]_vars
    BY StepKeeps DEF KeptOrder
  <1> QED BY <1>1, Invariant, PTL DEF Spec, NeighboursKept

------------------------------------------------------------------------------
(* What a turn of DeleteBlock's loop does to one of the tables.            *)
Turn(t1, t, u, b, i) ==
    \A d \in Block, p \in Port :
        t1[d][p] = IF u[b][i] = <<d, p>>
                   THEN IF t[b][i] # None /\ u[b][i] # None /\ t[b][i][1] # u[b][i][1]
                        THEN t[b][i] ELSE None
                   ELSE IF b = d /\ i = p THEN None ELSE t[d][p]

(* A turn does this to both tables.                                        *)
LEMMA JoinedTurns ==
    ASSUME NEW net \in Net, NEW b \in Block, NEW i \in Port
    PROVE  /\ Turn(Joined(net, b, i).inputs, net.inputs, net.outputs, b, i)
           /\ Turn(Joined(net, b, i).outputs, net.outputs, net.inputs, b, i)
  <1> DEFINE in == net.inputs
             out == net.outputs
             meet == in[b][i] # None /\ out[b][i] # None /\ in[b][i][1] # out[b][i][1]
             in0 == Put(in, <<b, i>>, None)
             out0 == Put(out, <<b, i>>, None)
             in1 == Joined(net, b, i).inputs
             out1 == Joined(net, b, i).outputs
  <1>1. in \in Table /\ out \in Table
    BY DEF Net
  <1>2. in[b][i] \in End \cup {None} /\ out[b][i] \in End \cup {None} /\ <<b, i>> \in End
    BY <1>1, InTable, NotAnEnd
  <1>3. in0 \in Table /\ out0 \in Table
    BY <1>1, <1>2, PutType
  <1>4. \A d \in Block, p \in Port :
           /\ in0[d][p] = IF b = d /\ i = p THEN None ELSE in[d][p]
           /\ out0[d][p] = IF b = d /\ i = p THEN None ELSE out[d][p]
    <2> SUFFICES ASSUME NEW d \in Block, NEW p \in Port
                 PROVE  /\ in0[d][p] = IF b = d /\ i = p THEN None ELSE in[d][p]
                        /\ out0[d][p] = IF b = d /\ i = p THEN None ELSE out[d][p]
      OBVIOUS
    <2>1. <<b, i>> = <<d, p>> <=> b = d /\ i = p
      OBVIOUS
    <2>2. /\ in0[d][p] = IF <<b, i>> = <<d, p>> THEN None ELSE in[d][p]
          /\ out0[d][p] = IF <<b, i>> = <<d, p>> THEN None ELSE out[d][p]
      BY <1>1, <1>2, PutAt
    <2> QED BY <2>1, <2>2
  <1>5. /\ in1 = Put(in0, out[b][i], IF meet THEN in[b][i] ELSE None)
        /\ out1 = Put(out0, in[b][i], IF meet THEN out[b][i] ELSE None)
    BY JoinedPut
  <1> HIDE DEF in0, out0, in1, out1, meet
  <1>6. \A d \in Block, p \in Port :
           in1[d][p] = IF out[b][i] = <<d, p>> THEN IF meet THEN in[b][i] ELSE None ELSE in0[d][p]
    BY <1>2, <1>3, <1>5, PutAt
  <1>7. \A d \in Block, p \in Port :
           out1[d][p] = IF in[b][i] = <<d, p>> THEN IF meet THEN out[b][i] ELSE None ELSE out0[d][p]
    BY <1>2, <1>3, <1>5, PutAt
  <1>8. Turn(in1, in, out, b, i)
    BY <1>4, <1>6 DEF Turn, meet
  <1>9. Turn(out1, out, in, b, i)
    BY <1>4, <1>7 DEF Turn, meet
  <1> QED BY <1>8, <1>9 DEF in1, out1

(* The other end of a connection, in the terms of Topology.                *)
Answered(S, t, u) ==
    \A b \in S, c \in Block, p, q \in Port : t[b][p] = <<c, q>> => u[c][q] = <<b, p>>

LEMMA OtherEnd ==
    ASSUME NEW S \in SUBSET Block, NEW t, NEW u, Agree(S, t, u)
    PROVE  Answered(S, t, u)
  <1> SUFFICES ASSUME NEW b \in S, NEW c \in Block, NEW p \in Port, NEW q \in Port,
                      t[b][p] = <<c, q>>
               PROVE  u[c][q] = <<b, p>>
    BY DEF Answered
  <1>1. Leads(t, b, p, c, q)
    BY DEF Leads
  <1>2. Leads(u, c, q, b, p)
    BY <1>1 DEF Agree
  <1> QED BY <1>2 DEF Leads

(* A port of block b is at b.                                              *)
LEMMA AtBlock ==
    \A b \in Block, p \in Port : IsAt(<<b, p>>, b)
  BY NotAnEnd DEF IsAt

(* The connections beside block b are those of t0.                         *)
Beside(t, t0, S, b) ==
    \A c \in S \ {b}, p \in Port : ~IsAt(t0[c][p], b) => t[c][p] = t0[c][p]

(* A turn leaves the connections beside b alone: it writes to the ports    *)
(* that b is connected to, and the tables agree.                           *)
LEMMA TurnBeside ==
    ASSUME NEW S \in SUBSET Block, NEW t, NEW u, NEW t1, NEW t0, Agree(S, u, t),
           NEW b \in S, NEW i \in Port, Turn(t1, t, u, b, i), Beside(t, t0, S, b)
    PROVE  Beside(t1, t0, S, b)
  <1> SUFFICES ASSUME NEW c \in S \ {b}, NEW p \in Port, ~IsAt(t0[c][p], b)
               PROVE  t1[c][p] = t0[c][p]
    BY DEF Beside
  <1>1. t[c][p] = t0[c][p]
    BY DEF Beside
  <1>2. u[b][i] # <<c, p>>
    <2>1. ASSUME u[b][i] = <<c, p>> PROVE t[c][p] = <<b, i>>
      <3>1. Answered(S, u, t)
        BY OtherEnd
      <3> QED BY <2>1, <3>1 DEF Answered
    <2> QED BY <1>1, <2>1, AtBlock
  <1> QED BY <1>1, <1>2 DEF Turn

(* The loop has been at the ports below n: they are free, and what led to  *)
(* one of them is joined or free.                                          *)
Cleared(t, t0, b, n) == \A q \in Port : t[b][q] = IF q < n THEN None ELSE t0[b][q]

Rejoined(t, t0, S, b, n) ==
    \A c \in S \ {b}, p, k \in Port :
        t0[c][p] = <<b, k>> =>
            t[c][p] = IF k < n THEN Spliced(t0, b, c, p) ELSE t0[c][p]

(* A turn goes on with the next port, when b is not connected to itself.   *)
LEMMA TurnJoins ==
    ASSUME NEW S \in SUBSET Block, NEW t, NEW u, NEW t1, NEW t0 \in Table, NEW u0 \in Table,
           Both(S, t0, u0), NEW b \in S, NEW i \in Port, Turn(t1, t, u, b, i),
           \A q \in Port : ~IsAt(u0[b][q], b),
           Cleared(t, t0, b, i), Cleared(u, u0, b, i), Rejoined(t, t0, S, b, i)
    PROVE  Cleared(t1, t0, b, i + 1) /\ Rejoined(t1, t0, S, b, i + 1)
  <1>0. Port \subseteq Nat
    BY PortAssumption DEF Port
  <1>1. t[b][i] = t0[b][i] /\ u[b][i] = u0[b][i]
    BY <1>0 DEF Cleared
  <1>2. \A k \in Port : (k < i + 1 <=> k < i \/ k = i) /\ ~(i < i)
    BY <1>0
  <1>3. Cleared(t1, t0, b, i + 1)
    <2> SUFFICES ASSUME NEW q \in Port
                 PROVE  t1[b][q] = IF q < i + 1 THEN None ELSE t0[b][q]
      BY DEF Cleared
    <2>1. u[b][i] # <<b, q>>
      <3>1. IsAt(<<b, q>>, b)
        BY AtBlock
      <3>2. ~IsAt(u0[b][i], b)
        OBVIOUS
      <3> QED BY <1>1, <3>1, <3>2
    <2>2. t1[b][q] = IF i = q THEN None ELSE t[b][q]
      BY <2>1 DEF Turn
    <2>3. t[b][q] = IF q < i THEN None ELSE t0[b][q]
      BY DEF Cleared
    <2> QED BY <1>2, <2>2, <2>3
  <1>4. Rejoined(t1, t0, S, b, i + 1)
    <2> SUFFICES ASSUME NEW c \in S \ {b}, NEW p \in Port, NEW k \in Port, t0[c][p] = <<b, k>>
                 PROVE  t1[c][p] = IF k < i + 1 THEN Spliced(t0, b, c, p) ELSE t0[c][p]
      BY DEF Rejoined
    <2>1. t[c][p] = IF k < i THEN Spliced(t0, b, c, p) ELSE t0[c][p]
      BY DEF Rejoined
    <2>2. u0[b][i] = <<c, p>> <=> k = i
      <3>1. Answered(S, u0, t0)
        BY OtherEnd DEF Both
      <3>2. u0[b][k] = <<c, p>>
        <4>1. Leads(t0, c, p, b, k)
          BY DEF Leads
        <4>2. Leads(u0, b, k, c, p)
          BY <4>1 DEF Both, Agree
        <4> QED BY <4>2 DEF Leads
      <3>3. u0[b][i] = <<c, p>> => t0[c][p] = <<b, i>>
        BY <3>1 DEF Answered
      <3> QED BY <3>2, <3>3
    <2>3. CASE k = i
      <3>1. u0[b][i] = <<c, p>>
        BY <2>2, <2>3
      <3>2. t1[c][p] = IF t0[b][i] # None /\ t0[b][i][1] # c THEN t0[b][i] ELSE None
        <4>1. u0[b][i] # None /\ u0[b][i][1] = c
          BY <3>1, NotAnEnd
        <4> QED BY <1>1, <3>1, <4>1 DEF Turn
      <3>3. IsAt(t0[c][p], b) /\ t0[c][p][2] = i
        BY <2>3, NotAnEnd DEF IsAt
      <3>4. Spliced(t0, b, c, p) = IF IsAt(t0[b][i], c) THEN None ELSE t0[b][i]
        BY <3>3 DEF Spliced
      <3> QED BY <1>2, <2>3, <3>2, <3>4 DEF IsAt
    <2>4. CASE k # i
      <3>1. t1[c][p] = t[c][p]
        BY <1>1, <2>2, <2>4 DEF Turn
      <3> QED BY <1>2, <2>1, <2>4, <3>1
    <2> QED BY <2>3, <2>4
  <1> QED BY <1>3, <1>4

(* The whole loop.                                                         *)
Tables(net) ==
    net \in Net /\ Both(blocks, net.inputs, net.outputs)

(* After the loop the tables agree, and the connections beside b are those *)
(* before it.                                                              *)
LEMMA DeletedBeside ==
    ASSUME inputs \in Table, outputs \in Table, blocks \subseteq Block,
           Both(blocks, inputs, outputs), NEW b \in blocks
    PROVE  LET net == JoinedAll(b)
           IN  /\ Tables(net)
               /\ Beside(net.inputs, inputs, blocks, b)
               /\ Beside(net.outputs, outputs, blocks, b)
  <1> DEFINE f == JoinedUpTo(b)
             Fit(net) == /\ Tables(net)
                         /\ Beside(net.inputs, inputs, blocks, b)
                         /\ Beside(net.outputs, outputs, blocks, b)
             T == {n \in 0..IO_BUFFERS : Fit(f[n])}
  <1>1. \A n \in 0..IO_BUFFERS : f[n] = IF n = 0 THEN Start ELSE Joined(f[n - 1], b, n - 1)
    BY LoopRuns DEF Loop
  <1>2. Fit(Start)
    BY DEF Start, Net, Tables, Beside
  <1>3. ASSUME NEW net, NEW i \in Port, Fit(net)
        PROVE  Fit(Joined(net, b, i))
    <2> DEFINE net1 == Joined(net, b, i)
    <2>1. net1 \in Net
      BY <1>3, JoinedPut DEF Tables
    <2>2. Both(blocks, net1.inputs, net1.outputs)
      BY <1>3, JoinedAgrees DEF Tables
    <2>3. /\ Turn(net1.inputs, net.inputs, net.outputs, b, i)
          /\ Turn(net1.outputs, net.outputs, net.inputs, b, i)
      BY <1>3, JoinedTurns DEF Tables
    <2>4. Agree(blocks, net.inputs, net.outputs) /\ Agree(blocks, net.outputs, net.inputs)
      BY <1>3 DEF Tables, Both
    <2> HIDE DEF net1
    <2>5. Beside(net1.inputs, inputs, blocks, b)
      BY <1>3, <2>3, <2>4, TurnBeside
    <2>6. Beside(net1.outputs, outputs, blocks, b)
      BY <1>3, <2>3, <2>4, TurnBeside
    <2>7. Fit(net1)
      BY <2>1, <2>2, <2>5, <2>6 DEF Tables
    <2> QED BY <2>7 DEF net1
  <1> HIDE DEF Fit, f
  <1>4. 0 \in T
    BY <1>1, <1>2, PortAssumption
  <1>5. ASSUME NEW n \in 0..(IO_BUFFERS - 1), n \in T
        PROVE  n + 1 \in T
    <2>1. f[n + 1] = Joined(f[n], b, n) /\ n \in Port
      BY <1>1, PortAssumption DEF Port
    <2> QED BY <1>3, <1>5, <2>1, PortAssumption
  <1>6. Fit(f[IO_BUFFERS])
    <2>1. 0..IO_BUFFERS \subseteq T
      <3> HIDE DEF T
      <3> QED BY <1>4, <1>5, SetInduction, PortAssumption
    <2> QED BY <2>1, PortAssumption
  <1> QED BY <1>6 DEF Fit, f, JoinedAll

Looping(net, b, n) ==
    /\ net \in Net
    /\ Cleared(net.inputs, inputs, b, n) /\ Rejoined(net.inputs, inputs, blocks, b, n)
    /\ Cleared(net.outputs, outputs, b, n) /\ Rejoined(net.outputs, outputs, blocks, b, n)

(* After the loop the ports of b are free, and what led to them is joined. *)
LEMMA DeletedJoins ==
    ASSUME inputs \in Table, outputs \in Table, blocks \subseteq Block,
           Both(blocks, inputs, outputs), NEW b \in blocks,
           \A q \in Port : ~IsAt(outputs[b][q], b)
    PROVE  Looping(JoinedAll(b), b, IO_BUFFERS)
  <1> DEFINE f == JoinedUpTo(b)
             T == {n \in 0..IO_BUFFERS : Looping(f[n], b, n)}
  <1>0. \A q \in Port : ~IsAt(inputs[b][q], b)
    <2> SUFFICES ASSUME NEW q \in Port, IsAt(inputs[b][q], b) PROVE FALSE
      OBVIOUS
    <2>1. inputs[b][q] \in End
      BY InTable DEF IsAt
    <2>2. PICK r \in Port : inputs[b][q] = <<b, r>>
      <3>1. inputs[b][q][1] = b
        BY DEF IsAt
      <3> QED BY <2>1, <3>1 DEF End
    <2>3. outputs[b][r] = <<b, q>>
      <3>1. Answered(blocks, inputs, outputs)
        BY OtherEnd DEF Both
      <3> QED BY <2>2, <3>1 DEF Answered
    <2>4. IsAt(outputs[b][r], b)
      BY <2>3, AtBlock
    <2> QED BY <2>4
  <1>1. \A n \in 0..IO_BUFFERS : f[n] = IF n = 0 THEN Start ELSE Joined(f[n - 1], b, n - 1)
    BY LoopRuns DEF Loop
  <1>2. Looping(Start, b, 0)
    <2>1. \A q \in Port : ~(q < 0)
      BY PortAssumption DEF Port
    <2> QED BY <2>1 DEF Looping, Start, Net, Cleared, Rejoined
  <1>3. ASSUME NEW net, NEW i \in Port, Looping(net, b, i)
        PROVE  Looping(Joined(net, b, i), b, i + 1)
    <2> DEFINE net1 == Joined(net, b, i)
    <2>1. net1 \in Net
      BY <1>3, JoinedPut DEF Looping
    <2>2. /\ Turn(net1.inputs, net.inputs, net.outputs, b, i)
          /\ Turn(net1.outputs, net.outputs, net.inputs, b, i)
      BY <1>3, JoinedTurns DEF Looping
    <2>3. Both(blocks, outputs, inputs)
      BY DEF Both
    <2> HIDE DEF net1
    <2>4. Cleared(net1.inputs, inputs, b, i + 1) /\ Rejoined(net1.inputs, inputs, blocks, b, i + 1)
      BY <1>3, <2>2, TurnJoins DEF Looping
    <2>5. Cleared(net1.outputs, outputs, b, i + 1) /\ Rejoined(net1.outputs, outputs, blocks, b, i + 1)
      BY <1>0, <1>3, <2>2, <2>3, TurnJoins DEF Looping
    <2>6. Looping(net1, b, i + 1)
      BY <2>1, <2>4, <2>5 DEF Looping
    <2> QED BY <2>6 DEF net1
  <1> HIDE DEF f
  <1>4. 0 \in T
    BY <1>1, <1>2, PortAssumption
  <1>5. ASSUME NEW n \in 0..(IO_BUFFERS - 1), n \in T
        PROVE  n + 1 \in T
    <2>1. f[n + 1] = Joined(f[n], b, n) /\ n \in Port
      BY <1>1, PortAssumption DEF Port
    <2> QED BY <1>3, <1>5, <2>1, PortAssumption
  <1>6. Looping(f[IO_BUFFERS], b, IO_BUFFERS)
    <2>1. 0..IO_BUFFERS \subseteq T
      <3> HIDE DEF T
      <3> QED BY <1>4, <1>5, SetInduction, PortAssumption
    <2> QED BY <2>1, PortAssumption
  <1> QED BY <1>6 DEF f, JoinedAll

(* What RemoveBlock leaves of a table, once the loop is through.           *)
LEMMA RemovedBeside ==
    ASSUME NEW S \in SUBSET Block, NEW t, NEW u, NEW t0, NEW b \in S, Agree(S, u, t),
           Beside(t, t0, S, b), NEW c \in S \ {b}, NEW p \in Port, ~IsAt(t0[c][p], b)
    PROVE  Removed(t, u, b)[c][p] = t0[c][p]
  <1>1. t[c][p] = t0[c][p]
    BY DEF Beside
  <1>2. \A q \in Port : u[b][q] # <<c, p>>
    <2> SUFFICES ASSUME NEW q \in Port, u[b][q] = <<c, p>> PROVE FALSE
      OBVIOUS
    <2>1. t[c][p] = <<b, q>>
      <3>1. Answered(S, u, t)
        BY OtherEnd
      <3> QED BY <3>1 DEF Answered
    <2> QED BY <1>1, <2>1, AtBlock
  <1> QED BY <1>1, <1>2 DEF Removed

LoopDone(t, t0, u, u0, S, b, c, p) ==
    /\ S \in SUBSET Block /\ t0 \in Table
    /\ b \in S /\ c \in S \ {b} /\ p \in Port
    /\ Cleared(u, u0, b, IO_BUFFERS)
    /\ Rejoined(t, t0, S, b, IO_BUFFERS)
    /\ Beside(t, t0, S, b)

(* RemoveBlock finds nothing left to clear.                                *)
LEMMA RemovedJoins ==
    ASSUME NEW S, NEW t, NEW u, NEW t0, NEW u0, NEW b, NEW c, NEW p,
           LoopDone(t, t0, u, u0, S, b, c, p)
    PROVE  Removed(t, u, b)[c][p] = Spliced(t0, b, c, p)
  <1>0. /\ \A q \in Port : q < IO_BUFFERS
        /\ S \subseteq Block /\ t0 \in Table /\ b \in S /\ c \in S \ {b} /\ p \in Port
    BY PortAssumption DEF Port, LoopDone
  <1>1. \A q \in Port : u[b][q] # <<c, p>>
    BY <1>0, NotAnEnd DEF LoopDone, Cleared
  <1>2. Removed(t, u, b)[c][p] = t[c][p]
    BY <1>0, <1>1 DEF Removed
  <1>3. CASE ~IsAt(t0[c][p], b)
    BY <1>0, <1>2, <1>3 DEF LoopDone, Beside, Spliced
  <1>4. CASE IsAt(t0[c][p], b)
    <2>1. t0[c][p] \in End /\ t0[c][p][1] = b
      BY <1>0, <1>4, InTable DEF IsAt
    <2>2. PICK k \in Port : t0[c][p] = <<b, k>>
      BY <2>1 DEF End
    <2>3. t[c][p] = Spliced(t0, b, c, p)
      BY <1>0, <2>2 DEF LoopDone, Rejoined
    <2> QED BY <1>2, <2>3
  <1> QED BY <1>3, <1>4

(* What a step of Next must keep for DeleteRepairs.                        *)
Repaired ==
    ~clobbered /\ L_delete =>
        \A c \in blocks \ {current}, p \in Port :
           /\ ~IsAt(outputs[c][p], current) => outputs'[c][p] = outputs[c][p]
           /\ ~IsAt(inputs[c][p], current) => inputs'[c][p] = inputs[c][p]
           /\ (\A q \in Port : ~IsAt(outputs[current][q], current)) =>
                /\ outputs'[c][p] = Spliced(outputs, current, c, p)
                /\ inputs'[c][p] = Spliced(inputs, current, c, p)

(* delete does what the comment on DeleteBlock says.                       *)
LEMMA StepRepairs == IInv => Repaired
  <1> SUFFICES ASSUME IInv, ~clobbered, L_delete,
                      NEW c \in blocks \ {current}, NEW p \in Port
               PROVE  /\ ~IsAt(outputs[c][p], current) => outputs'[c][p] = outputs[c][p]
                      /\ ~IsAt(inputs[c][p], current) => inputs'[c][p] = inputs[c][p]
                      /\ (\A q \in Port : ~IsAt(outputs[current][q], current)) =>
                           /\ outputs'[c][p] = Spliced(outputs, current, c, p)
                           /\ inputs'[c][p] = Spliced(inputs, current, c, p)
    BY DEF Repaired
  <1> DEFINE net == JoinedAll(current)
  <1>1. /\ inputs \in Table /\ outputs \in Table /\ blocks \subseteq Block
        /\ Both(blocks, inputs, outputs) /\ current \in blocks
    BY DEF IInv, Located, Connected, L_delete
  <1>2. /\ outputs' = Removed(net.outputs, net.inputs, current)
        /\ inputs' = Removed(net.inputs, net.outputs, current)
    BY DEF L_delete
  <1>3. /\ Tables(net)
        /\ Beside(net.inputs, inputs, blocks, current)
        /\ Beside(net.outputs, outputs, blocks, current)
    BY <1>1, DeletedBeside
  <1>4. ASSUME \A q \in Port : ~IsAt(outputs[current][q], current)
        PROVE  Looping(net, current, IO_BUFFERS)
    BY <1>1, <1>4, DeletedJoins
  <1> HIDE DEF net
  <1>5. Agree(blocks, net.inputs, net.outputs) /\ Agree(blocks, net.outputs, net.inputs)
    BY <1>3 DEF Tables, Both
  <1>6. ~IsAt(outputs[c][p], current) => outputs'[c][p] = outputs[c][p]
    BY <1>1, <1>2, <1>3, <1>5, RemovedBeside
  <1>7. ~IsAt(inputs[c][p], current) => inputs'[c][p] = inputs[c][p]
    BY <1>1, <1>2, <1>3, <1>5, RemovedBeside
  <1>8. ASSUME \A q \in Port : ~IsAt(outputs[current][q], current)
        PROVE  /\ outputs'[c][p] = Spliced(outputs, current, c, p)
               /\ inputs'[c][p] = Spliced(inputs, current, c, p)
    <2>1. Looping(net, current, IO_BUFFERS)
      BY <1>4, <1>8
    <2>2. /\ LoopDone(net.outputs, outputs, net.inputs, inputs, blocks, current, c, p)
          /\ LoopDone(net.inputs, inputs, net.outputs, outputs, blocks, current, c, p)
      BY <1>1, <1>3, <2>1 DEF Looping, LoopDone
    <2>3. Removed(net.outputs, net.inputs, current)[c][p] = Spliced(outputs, current, c, p)
      BY <2>2, RemovedJoins
    <2>4. Removed(net.inputs, net.outputs, current)[c][p] = Spliced(inputs, current, c, p)
      BY <2>2, RemovedJoins
    <2> QED BY <1>2, <2>3, <2>4
  <1> QED BY <1>6, <1>7, <1>8

(* DeleteRepairs for any number of blocks and ports: delete joins what     *)
(* comes in at port i with what goes out of output i, makes no connection  *)
(* of a block with itself, and leaves the connections beside the block     *)
(* alone.                                                                  *)
THEOREM DeletionRepairs == Spec => DeleteRepairs
  <1>1. IInv /\ [Next]_vars
          => [~clobbered /\ L_delete =>
                \A c \in blocks \ {current}, p \in Port :
                   /\ ~IsAt(outputs[c][p], current) => outputs'[c][p] = outputs[c][p]
                   /\ ~IsAt(inputs[c][p], current) => inputs'[c][p] = inputs[c][p]
                   /\ (\A q \in Port : ~IsAt(outputs[current][q], current)) =>
                        /\ outputs'[c][p] = Spliced(outputs, current, c, p)
                        /\ inputs'[c][p] = Spliced(inputs, current, c, p)]_vars
    BY StepRepairs DEF Repaired
  <1> QED BY <1>1, Invariant, PTL DEF Spec, DeleteRepairs
===============================================================================
