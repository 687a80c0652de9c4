------------------------------- MODULE MCDriver -------------------------------
(***************************************************************************)
(* Machines and options on which TLC checks Driver.                        *)
(***************************************************************************)
EXTENDS Driver, TLC

None == 0

\* Each object with its type and its parent.
Machine(tree, Size(_), hbm) ==
    [type   |-> [o \in DOMAIN tree |-> tree[o][1]],
     parent |-> [o \in DOMAIN tree |-> tree[o][2]],
     size   |-> [o \in DOMAIN tree |-> Size(tree[o][1])],
     hbm    |-> [o \in DOMAIN tree |-> o \in hbm]]

KB(t) == CASE t = "L1" -> 32 [] t = "L2" -> 256 [] t = "L3" -> 8192
           [] t = "NUMANODE" -> 64 * 1048576 [] OTHER -> 0

(* One package, two cores below an L3.                                     *)
Desktop == Machine(
    <<<<"MACHINE", 0>>, <<"PACKAGE", 1>>, <<"L3", 2>>, <<"L2", 3>>, <<"L2", 3>>, <<"L1", 4>>, <<"L1", 5>>,
      <<"CORE", 6>>, <<"CORE", 7>>, <<"NUMANODE", 2>>>>, KB, {})

(* Two packages of one core and one node.                                  *)
Server == Machine(
    <<<<"MACHINE", 0>>, <<"PACKAGE", 1>>, <<"PACKAGE", 1>>, <<"L3", 2>>, <<"L3", 3>>, <<"L2", 4>>, <<"L2", 5>>,
      <<"L1", 6>>, <<"L1", 7>>, <<"CORE", 8>>, <<"CORE", 9>>, <<"NUMANODE", 2>>, <<"NUMANODE", 3>>>>, KB, {})

(* Two clusters with an ordinary and a fast node each, and L2s for two     *)
(* cores.                                                                  *)
ManyCore == Machine(
    <<<<"MACHINE", 0>>, <<"PACKAGE", 1>>, <<"GROUP", 2>>, <<"GROUP", 2>>, <<"L2", 3>>, <<"L2", 4>>,
      <<"L1", 5>>, <<"L1", 5>>, <<"L1", 6>>, <<"L1", 6>>, <<"CORE", 7>>, <<"CORE", 8>>, <<"CORE", 9>>, <<"CORE", 10>>,
      <<"NUMANODE", 3>>, <<"NUMANODE", 3>>, <<"NUMANODE", 4>>, <<"NUMANODE", 4>>>>, KB, {16, 18})

(* Two clusters with a node each below the L3 of their package.            *)
SubNuma == Machine(
    <<<<"MACHINE", 0>>, <<"PACKAGE", 1>>, <<"L3", 2>>, <<"GROUP", 3>>, <<"GROUP", 3>>, <<"L2", 4>>, <<"L2", 5>>,
      <<"L1", 6>>, <<"L1", 7>>, <<"CORE", 8>>, <<"CORE", 9>>, <<"NUMANODE", 4>>, <<"NUMANODE", 5>>>>, KB, {})

All == {Desktop, Server, ManyCore, SubNuma}

AVX2 == CacheOps \cup NTOps \cup {"ADD", "MUL", "MAD", "FMA"}

Policies == {"firsttouch", "firsttouch_HBM", "interleave", "interleave_DDR", "interleave_HBM"}

(* -t, -oi, -s, -m with up to three objects, -mat, -p: two of them at a time *)
(* differ from their default.                                              *)
TypesAsked  == {{}, {"LOAD_NT", "LATENCY_LOAD", "FMA"}, {"ADD"}, {"STORE_NT"}}
Asked       == {<<0, 1>>, <<-1, 1>>, <<1, 3>>, <<2, 3>>, <<1, 1>>, <<31, 4>>, <<1, 100>>}
(* For unsigned of ten bits and doubles of six bits: 98 / 33 may be        *)
(* rounded to 3; counts that just fit, and some that do not fit.           *)
Edges       == {<<33, 98>>, <<1, 1022>>, <<1, 1500>>, <<1, 600000>>, <<15, 1>>, <<40, 1>>, <<9000, 1>>}
Default(m)  == [types |-> {}, oi |-> <<0, 1>>, up |-> FALSE, src |-> CHOOSE o \in DOMAIN m.type :
                    m.type[o] = "NUMANODE" /\ \A x \in DOMAIN m.type : m.type[x] = "NUMANODE" => o <= x,
                given |-> FALSE, list |-> << >>, matrix |-> FALSE, policy |-> "firsttouch"]
Mixed(m) ==
    {[Default(m) EXCEPT !.types = t, !.oi = i] : t \in TypesAsked, i \in Asked}
    \cup {[Default(m) EXCEPT !.oi = i] : i \in Edges}
    \cup {[Default(m) EXCEPT !.oi = <<33, 98>>, !.up = TRUE]}
    \cup {[Default(m) EXCEPT !.src = o] : o \in DOMAIN m.type}
    \cup {[Default(m) EXCEPT !.policy = p, !.types = {"STORE"}] : p \in Policies}
    \cup {[Default(m) EXCEPT !.matrix = TRUE, !.types = t, !.oi = i] : t \in TypesAsked, i \in {<<0, 1>>, <<2, 3>>}}
    \cup {[Default(m) EXCEPT !.given = TRUE, !.list = l, !.src = 1] :
            l \in {<< >>} \cup {<<o>> : o \in DOMAIN m.type} \cup {<<o, x, o>> : o, x \in 1 .. 5}}
=============================================================================
