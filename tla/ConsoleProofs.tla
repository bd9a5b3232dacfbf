---------------------------- MODULE ConsoleProofs ----------------------------
(***************************************************************************)
(* Proofs about Console for every set of networks, every disk and every    *)
(* bound: the types of both its parts, JoinsWhatWasAsked and               *)
(* AvailableIsEarned.                                                      *)
(*                                                                         *)
(* JoinsWhatWasAsked rests on a file being empty while the overlay rewrites *)
(* it, and on what the node knows of config.ini when it goes on to          *)
(* networks.ini: nothing, or what the file still says of networks, since   *)
(* the overlay's switches write to it but change no network in it.          *)
(* AvailableIsEarned rests on what the shim's thread has established at    *)
(* each step of a held call, and on the barrier being closed only by an    *)
(* answer the game has had in this attempt.                                *)
(***************************************************************************)
EXTENDS Console, SequenceTheorems, WellFoundedInduction, TLAPS

(* Two texts of config.ini name the same networks. *)
SameNames(x, y) ==
    /\ ParseNwid(Text(x)) = ParseNwid(Text(y))
    /\ ParseConfigString(Text(x), "network") = ParseConfigString(Text(y), "network")

(* What is being rewritten is empty... *)
CutMeansEmpty == \A f \in {"config", "saved"} : Busy(f) => disk[f] = <<>>

(* ...the overlay leaves the networks in config.ini alone... *)
ConfigKept ==
    /\ \A i \in DOMAIN overlay.todo :
          overlay.todo[i].file = "config" => overlay.todo[i].line.k = "toggle"
    /\ Busy("config") => SameNames(overlay.at.text, overlay.at.old)

(* ...and what the node has read of it still holds, or is nothing. *)
ReadHolds ==
    node.pc = "saved" => \/ Text(node.config) = <<>>
                         \/ SameNames(node.config, Whole("config"))

FilesKept == CutMeansEmpty /\ ConfigKept /\ ReadHolds

FilesInv == FilesTypeOK /\ FilesKept

(* A call is held for games of the stock kind, with time left for the look *)
(* that is being taken, and the wire was up when the address is looked at. *)
HeldCall ==
    /\ server.pc # "idle" => ~UsesRyujinxNifmRequestModel /\ answer.call # "begin"
    /\ server.pc \in {"wire", "address"} => server.looks < MaxLooks
    /\ server.pc = "address" => seen.wire

(* The barrier stays passed only for a game that has had its Available.    *)
BarrierTold ==
    request.barrier /\ server.pc = "idle" => told /\ answer.call # "begin"

NifmInv == NifmTypeOK /\ HeldCall /\ BarrierTold

Inv == FilesInv /\ NifmInv

-----------------------------------------------------------------------------
(* Lines and files.                                                        *)

(* A set of a file's lines has a first and a last one. *)
LEMMA MinIsLeast ==
    ASSUME NEW S, S \subseteq Nat, S # {}
    PROVE  Min(S) \in S /\ \A x \in S : Min(S) <= x
<1> DEFINE R == {p \in Nat \X Nat : p[1] < p[2]}
<1>1. IsWellFoundedOn(R, Nat)
  BY NatLessThanWellFounded DEF OpToRel
<1>2. \A x, y \in Nat : <<y, x>> \in R <=> y < x
  OBVIOUS
<1> HIDE DEF R
<1>3. PICK x \in S : \A y \in S : ~(<<y, x>> \in R)
  BY <1>1, WFMin
<1>4. ASSUME NEW y \in S
      PROVE  x <= y
  <2>1. x \in Nat /\ y \in Nat
    OBVIOUS
  <2>2. ~(y < x)
    BY <1>2, <1>3, <2>1
  <2> QED
    BY <2>1, <2>2
<1> QED
  BY <1>4 DEF Min

LEMMA MaxIsGreatest ==
    ASSUME NEW n \in Nat, NEW S \in SUBSET (1..n), S # {}
    PROVE  Max(S) \in S /\ \A x \in S : Max(S) >= x
<1> DEFINE T == {n - x : x \in S}
<1>1. T \subseteq Nat /\ T # {}
  <2>1. \A x \in S : n - x \in Nat
    <3> TAKE x \in S
    <3>1. x \in 1..n
      OBVIOUS
    <3> QED
      BY <3>1
  <2> QED
    BY <2>1
<1>2. Min(T) \in T /\ \A t \in T : Min(T) <= t
  BY <1>1, MinIsLeast
<1>3. PICK x \in S : Min(T) = n - x
  BY <1>2
<1>4. ASSUME NEW y \in S
      PROVE  x >= y
  <2>1. n - x <= n - y
    BY <1>2, <1>3
  <2> QED
    BY <2>1
<1> QED
  BY <1>4 DEF Max

LEMMA TextIsLines ==
    ASSUME NEW file \in Texts
    PROVE  Text(file) \in Seq(Lines)
BY DEF Texts, Text

(* What is read for a key is a network or nothing. *)
LEMMA ValueRead ==
    ASSUME NEW file \in Seq(Lines), NEW k \in {"nwid", "selected", "network"},
           NEW is \in SUBSET Keys(file, k)
    PROVE  /\ ValueAt(file, is) \in Nets \cup {None}
           /\ is # {} => file[Min(is)].v \in Nets \cup {None}
<1>1. \A i \in Keys(file, k) : file[i].v \in Nets \cup {None}
  <2> TAKE i \in Keys(file, k)
  <2>1. file[i] \in Lines /\ file[i].k = k
    BY DEF Keys
  <2> QED
    BY <2>1 DEF Lines
<1>2. is \subseteq 1..Len(file) /\ Len(file) \in Nat
  BY DEF Keys
<1>3. CASE is = {}
  BY <1>3 DEF ValueAt
<1>4. CASE is # {}
  <2>1. Max(is) \in is
    BY <1>2, <1>4, MaxIsGreatest
  <2>2. Min(is) \in is
    <3>1. is \subseteq Nat
      BY <1>2
    <3> QED
      BY <1>4, <3>1, MinIsLeast
  <2> QED
    BY <1>1, <1>4, <2>1, <2>2 DEF ValueAt
<1> QED
  BY <1>3, <1>4

(* So what ResolveConfiguredNetworkId finds is a network or nothing... *)
LEMMA SelectionType ==
    ASSUME NEW config \in Texts, NEW saved \in Texts
    PROVE  Selection(config, saved) \in Nets \cup {None}
<1>1. \A s : ParseSavedNetwork(Text(saved), s) \in Nets \cup {None}
  <2> TAKE s
  <2> DEFINE is == {i \in Keys(Text(saved), "nwid") : Section(Text(saved), i) = s}
  <2>1. is \in SUBSET Keys(Text(saved), "nwid") /\ Text(saved) \in Seq(Lines)
    BY TextIsLines
  <2>2. is # {} => Text(saved)[Min(is)].v \in Nets \cup {None}
    BY <2>1, ValueRead
  <2> QED
    BY <2>2 DEF ParseSavedNetwork
<1> QED
  BY <1>1 DEF Selection

LEMMA ResolveType ==
    ASSUME NEW config \in Texts, NEW saved \in Texts
    PROVE  Resolve(config, saved) \in Nets \cup {None}
<1>1. Text(config) \in Seq(Lines) /\ Text(saved) \in Seq(Lines)
  BY TextIsLines
<1>2. ParseNwid(Text(config)) \in Nets \cup {None}
  <2>1. {i \in Keys(Text(config), "nwid") : Text(config)[i].v # None}
          \in SUBSET Keys(Text(config), "nwid")
    OBVIOUS
  <2> QED
    BY <1>1, <2>1, ValueRead DEF ParseNwid
<1>3. ParseFirstSavedNetwork(Text(saved)) \in Nets \cup {None}
  <2> DEFINE is == {i \in Keys(Text(saved), "nwid") :
                       /\ Text(saved)[i].v # None
                       /\ Section(Text(saved), i) \notin {None, Own}}
  <2>1. ValueAt(Text(saved), is) \in Nets \cup {None}
    BY <1>1, ValueRead
  <2> QED
    BY <2>1 DEF ParseFirstSavedNetwork
<1> QED
  BY <1>2, <1>3, SelectionType DEF Resolve

(* ...and nothing in an empty list of networks. *)
LEMMA NothingSaved ==
    ASSUME NEW config, NEW saved \in {None, <<>>}
    PROVE  Selection(config, saved) = None /\ ParseFirstSavedNetwork(Text(saved)) = None
<1>1. Text(saved) = <<>>
  BY DEF Text
<1>2. \A k : Keys(<<>>, k) = {}
  BY DEF Keys
<1>3. \A s : ParseSavedNetwork(<<>>, s) = None
  BY <1>2 DEF ParseSavedNetwork
<1>4. ParseFirstSavedNetwork(<<>>) = None
  <2>1. {i \in Keys(<<>>, "nwid") : /\ <<>>[i].v # None
                                    /\ Section(<<>>, i) \notin {None, Own}} = {}
    BY <1>2
  <2> QED
    BY <2>1 DEF ParseFirstSavedNetwork, ValueAt
<1> QED
  BY <1>1, <1>3, <1>4 DEF Selection

(* A file with another value in it is a file. *)
LEMMA SetIniType ==
    ASSUME NEW file \in Texts, NEW w \in Writes
    PROVE  SetIniFileValue(file, w) \in Seq(Lines)
<1> DEFINE text == Text(file)
           here == {i \in DOMAIN text : Section(text, i) = w.section}
           old  == {i \in here : text[i].k = w.line.k}
<1>1. text \in Seq(Lines)
  BY TextIsLines
<1> HIDE DEF text
<1>2. w.line \in Lines /\ w.section \in Nets \cup {Own}
  BY DEF Writes
<1>3. Line("section", w.section) \in Lines
  BY <1>2 DEF Line, Lines
<1>4. here \in SUBSET (1..Len(text)) /\ old \subseteq here /\ Len(text) \in Nat
  BY <1>1
<1> HIDE DEF here, old
<1>5. CASE old # {}
  <2>1. Min(old) \in 1..Len(text)
    <3>1. old \subseteq Nat
      BY <1>4
    <3> QED
      BY <1>4, <1>5, <3>1, MinIsLeast
  <2>2. ReplaceAt(text, Min(old), w.line) \in Seq(Lines)
    BY <1>1, <1>2, <2>1 DEF ReplaceAt
  <2> QED
    BY <1>5, <2>2 DEF SetIniFileValue, text, here, old
<1>6. CASE old = {} /\ here # {}
  <2>1. Max(here) \in 1..Len(text)
    BY <1>4, <1>6, MaxIsGreatest
  <2> DEFINE at == Max(here) + 1
  <2>2. at \in 2..Len(text) + 1
    BY <1>4, <2>1
  <2> HIDE DEF at
  <2>3. SubSeq(text, 1, at - 1) \in Seq(Lines) /\ SubSeq(text, at, Len(text)) \in Seq(Lines)
    <3>1. \A i \in 1..at - 1 : text[i] \in Lines
      BY <1>1, <2>2
    <3>2. \A i \in at..Len(text) : text[i] \in Lines
      BY <1>1, <2>2
    <3> QED
      BY <1>1, <2>2, <3>1, <3>2, SubSeqProperties
  <2>4. InsertAt(text, at, w.line) \in Seq(Lines)
    BY <1>2, <2>3 DEF InsertAt
  <2> QED
    BY <1>6, <2>4 DEF SetIniFileValue, text, here, old, at
<1>7. CASE old = {} /\ here = {}
  <2>1. text \o <<Line("section", w.section), w.line>> \in Seq(Lines)
    BY <1>1, <1>2, <1>3
  <2> QED
    BY <1>7, <2>1 DEF SetIniFileValue, text, here, old
<1> QED
  BY <1>5, <1>6, <1>7

(* The last of some lines keeps its value where those lines go, in order. *)
LEMMA ValueCarried ==
    ASSUME NEW s \in Seq(Lines), NEW t \in Seq(Lines), NEW g \in [DOMAIN s -> DOMAIN t],
           NEW P \in SUBSET DOMAIN s, NEW Q \in SUBSET DOMAIN t,
           \A i \in P : g[i] \in Q /\ t[g[i]].v = s[i].v,
           \A j \in Q : \E i \in P : g[i] = j,
           \A i, j \in P : i <= j => g[i] <= g[j]
    PROVE  ValueAt(t, Q) = ValueAt(s, P)
<1>1. P \in SUBSET (1..Len(s)) /\ Q \in SUBSET (1..Len(t)) /\ Len(s) \in Nat /\ Len(t) \in Nat
  OBVIOUS
<1>2. CASE P = {}
  BY <1>2 DEF ValueAt
<1>3. CASE P # {}
  <2>1. Q # {}
    BY <1>3
  <2>2. PICK m \in P : m = Max(P) /\ \A i \in P : m >= i
    BY <1>1, <1>3, MaxIsGreatest
  <2>3. PICK q \in Q : q = Max(Q) /\ \A j \in Q : q >= j
    BY <1>1, <2>1, MaxIsGreatest
  <2>4. PICK k \in P : g[k] = q
    OBVIOUS
  <2>5. k \in Nat /\ m \in Nat /\ g[k] \in Nat /\ g[m] \in Nat
    BY <1>1
  <2>6. g[m] = q
    <3>1. k <= m
      BY <2>2, <2>5
    <3>2. g[k] <= g[m]
      BY <3>1
    <3>3. g[m] <= q
      BY <2>3, <2>5
    <3> QED
      BY <2>4, <2>5, <3>2, <3>3
  <2>7. t[q].v = s[m].v
    BY <2>6
  <2> QED
    BY <1>3, <2>1, <2>2, <2>3, <2>7 DEF ValueAt
<1> QED
  BY <1>2, <1>3

(* Lines that name no network make no difference to what config.ini names. *)
LEMMA NamesCarried ==
    ASSUME NEW s \in Seq(Lines), NEW t \in Seq(Lines), NEW g \in [DOMAIN s -> DOMAIN t],
           \A i \in DOMAIN s : s[i].k \in {"nwid", "network"} => t[g[i]] = s[i],
           \A j \in DOMAIN t : t[j].k \in {"nwid", "network"} =>
              \E i \in DOMAIN s : g[i] = j /\ t[j] = s[i],
           \A i, j \in DOMAIN s : i <= j => g[i] <= g[j]
    PROVE  /\ ParseNwid(t) = ParseNwid(s)
           /\ ParseConfigString(t, "network") = ParseConfigString(s, "network")
<1>1. ParseNwid(t) = ParseNwid(s)
  <2> DEFINE P == {i \in Keys(s, "nwid") : s[i].v # None}
             Q == {j \in Keys(t, "nwid") : t[j].v # None}
  <2>1. P \in SUBSET DOMAIN s /\ Q \in SUBSET DOMAIN t
    BY DEF Keys
  <2>2. \A i \in P : g[i] \in Q /\ t[g[i]].v = s[i].v
    BY DEF Keys
  <2>3. \A j \in Q : \E i \in P : g[i] = j
    BY DEF Keys
  <2>4. \A i, j \in P : i <= j => g[i] <= g[j]
    BY <2>1
  <2>5. ParseNwid(t) = ValueAt(t, Q) /\ ParseNwid(s) = ValueAt(s, P)
    BY DEF ParseNwid
  <2> HIDE DEF P, Q
  <2> QED
    BY <2>1, <2>2, <2>3, <2>4, <2>5, ValueCarried
<1>2. ParseConfigString(t, "network") = ParseConfigString(s, "network")
  <2> DEFINE P == Keys(s, "network")
             Q == Keys(t, "network")
  <2>1. P \in SUBSET DOMAIN s /\ Q \in SUBSET DOMAIN t
    BY DEF Keys
  <2>2. \A i \in P : g[i] \in Q /\ t[g[i]].v = s[i].v
    BY DEF Keys
  <2>3. \A j \in Q : \E i \in P : g[i] = j
    BY DEF Keys
  <2>4. \A i, j \in P : i <= j => g[i] <= g[j]
    BY <2>1
  <2>5. ParseConfigString(t, "network") = ValueAt(t, Q)
        /\ ParseConfigString(s, "network") = ValueAt(s, P)
    BY DEF ParseConfigString
  <2> HIDE DEF P, Q
  <2> QED
    BY <2>1, <2>2, <2>3, <2>4, <2>5, ValueCarried
<1> QED
  BY <1>1, <1>2

(* A service switch leaves the networks in config.ini as they are. *)
LEMMA ToggleKeepsNames ==
    ASSUME NEW file \in Texts, NEW w \in Writes, w.line.k = "toggle"
    PROVE  SameNames(SetIniFileValue(file, w), file)
<1> DEFINE text == Text(file)
           here == {i \in DOMAIN text : Section(text, i) = w.section}
           old  == {i \in here : text[i].k = w.line.k}
           new  == SetIniFileValue(file, w)
<1>1. text \in Seq(Lines) /\ new \in Seq(Lines)
  BY TextIsLines, SetIniType
<1>2. Text(new) = new
  BY <1>1, SettingsAssumption DEF Text
<1>3. here \in SUBSET (1..Len(text)) /\ old \subseteq here /\ Len(text) \in Nat
  BY <1>1
<1>4. w.line.k \notin {"nwid", "network"}
  OBVIOUS
<1> SUFFICES ParseNwid(new) = ParseNwid(text)
             /\ ParseConfigString(new, "network") = ParseConfigString(text, "network")
  BY <1>2 DEF SameNames
<1>5. CASE old # {}
  <2>1. PICK m \in old : m = Min(old)
    <3>1. old \subseteq Nat
      BY <1>3
    <3> QED
      BY <1>5, <3>1, MinIsLeast
  <2>2. m \in DOMAIN text /\ text[m].k \notin {"nwid", "network"}
    BY <1>4
  <2>3. new = ReplaceAt(text, m, w.line)
    BY <1>5, <2>1 DEF SetIniFileValue
  <2> HIDE DEF text, here, old, new
  <2>4. new = [text EXCEPT ![m] = w.line]
    BY <1>1, <2>2, <2>3 DEF ReplaceAt
  <2> DEFINE g == [i \in DOMAIN text |-> i]
  <2>5. DOMAIN new = DOMAIN text /\ g \in [DOMAIN text -> DOMAIN new]
    BY <1>1, <2>4
  <2>6. \A i \in DOMAIN text : text[i].k \in {"nwid", "network"} => new[g[i]] = text[i]
    BY <1>1, <2>2, <2>4
  <2>7. \A j \in DOMAIN new : new[j].k \in {"nwid", "network"} =>
           \E i \in DOMAIN text : g[i] = j /\ new[j] = text[i]
    <3> SUFFICES ASSUME NEW j \in DOMAIN new, new[j].k \in {"nwid", "network"}
                 PROVE  j \in DOMAIN text /\ g[j] = j /\ new[j] = text[j]
      OBVIOUS
    <3>1. j # m
      BY <1>1, <1>4, <2>2, <2>4
    <3> QED
      BY <1>1, <2>4, <2>5, <3>1
  <2>8. \A i, j \in DOMAIN text : i <= j => g[i] <= g[j]
    OBVIOUS
  <2> HIDE DEF g
  <2> QED
    BY <1>1, <2>5, <2>6, <2>7, <2>8, NamesCarried
<1>6. CASE old = {} /\ here # {}
  <2>1. PICK at \in 2..Len(text) + 1 : new = InsertAt(text, at, w.line)
    <3>1. Max(here) \in 1..Len(text)
      BY <1>3, <1>6, MaxIsGreatest
    <3>2. Max(here) + 1 \in 2..Len(text) + 1
      BY <1>3, <3>1
    <3> QED
      BY <1>6, <3>2 DEF SetIniFileValue
  <2> HIDE DEF text, here, old, new
  <2>2. new = SubSeq(text, 1, at - 1) \o <<w.line>> \o SubSeq(text, at, Len(text))
    BY <2>1 DEF InsertAt
  <2>3. /\ Len(new) = Len(text) + 1
        /\ \A i \in 1..at - 1 : new[i] = text[i]
        /\ new[at] = w.line
        /\ \A i \in at..Len(text) : new[i + 1] = text[i]
    BY <1>1, <1>3, <2>1, <2>2
  <2> DEFINE g == [i \in DOMAIN text |-> IF i < at THEN i ELSE i + 1]
  <2>4. DOMAIN text = 1..Len(text) /\ DOMAIN new = 1..Len(text) + 1
    BY <1>1, <2>3
  <2>5. g \in [DOMAIN text -> DOMAIN new]
    BY <1>3, <2>1, <2>4
  <2>6. \A i \in DOMAIN text : new[g[i]] = text[i]
    BY <1>3, <2>1, <2>3, <2>4
  <2>7. \A j \in DOMAIN new : new[j].k \in {"nwid", "network"} =>
           \E i \in DOMAIN text : g[i] = j /\ new[j] = text[i]
    <3> SUFFICES ASSUME NEW j \in DOMAIN new, new[j].k \in {"nwid", "network"}
                 PROVE  \E i \in DOMAIN text : g[i] = j /\ new[j] = text[i]
      OBVIOUS
    <3>1. j \in 1..Len(text) + 1 /\ j # at
      BY <1>4, <2>3, <2>4
    <3>2. CASE j < at
      <4>1. j \in DOMAIN text /\ g[j] = j
        BY <1>3, <2>1, <2>4, <3>1, <3>2
      <4> QED
        BY <2>6, <4>1
    <3>3. CASE j > at
      <4>1. j - 1 \in DOMAIN text /\ g[j - 1] = j
        BY <1>3, <2>1, <2>4, <3>1, <3>3
      <4> QED
        BY <2>6, <4>1
    <3> QED
      BY <2>1, <3>1, <3>2, <3>3
  <2>8. \A i, j \in DOMAIN text : i <= j => g[i] <= g[j]
    BY <1>3, <2>1, <2>4
  <2> HIDE DEF g
  <2> QED
    BY <1>1, <2>5, <2>6, <2>7, <2>8, NamesCarried
<1>7. CASE old = {} /\ here = {}
  <2>1. new = text \o <<Line("section", w.section), w.line>>
    BY <1>7 DEF SetIniFileValue
  <2>2. Line("section", w.section).k \notin {"nwid", "network"}
    BY DEF Line
  <2> HIDE DEF text, here, old, new
  <2>3. /\ DOMAIN text = 1..Len(text) /\ DOMAIN new = 1..Len(text) + 2
        /\ \A i \in 1..Len(text) : new[i] = text[i]
        /\ new[Len(text) + 1] = Line("section", w.section) /\ new[Len(text) + 2] = w.line
    BY <1>1, <1>3, <2>1
  <2> DEFINE g == [i \in DOMAIN text |-> i]
  <2>4. g \in [DOMAIN text -> DOMAIN new]
    BY <1>3, <2>3
  <2>5. \A i \in DOMAIN text : new[g[i]] = text[i]
    BY <2>3
  <2>6. \A j \in DOMAIN new : new[j].k \in {"nwid", "network"} =>
           \E i \in DOMAIN text : g[i] = j /\ new[j] = text[i]
    <3> SUFFICES ASSUME NEW j \in DOMAIN new, new[j].k \in {"nwid", "network"}
                 PROVE  j \in DOMAIN text /\ g[j] = j /\ new[j] = text[j]
      OBVIOUS
    <3>1. j # Len(text) + 1 /\ j # Len(text) + 2
      BY <1>4, <2>2, <2>3
    <3>2. j \in 1..Len(text)
      BY <1>3, <2>3, <3>1
    <3> QED
      BY <2>3, <3>2
  <2>7. \A i, j \in DOMAIN text : i <= j => g[i] <= g[j]
    OBVIOUS
  <2> HIDE DEF g
  <2> QED
    BY <1>1, <2>4, <2>5, <2>6, <2>7, NamesCarried
<1> QED
  BY <1>5, <1>6, <1>7

(* What is resolved is asked for by any config.ini that names the same. *)
LEMMA ResolvedIsAsked ==
    ASSUME NEW c, NEW d, NEW saved, SameNames(c, d), Resolve(c, saved) # None
    PROVE  Asks(d, saved, Resolve(c, saved))
<1>1. Selection(c, saved) = Selection(d, saved)
  BY DEF SameNames, Selection
<1> QED
  BY <1>1 DEF SameNames, Resolve, Asks

-----------------------------------------------------------------------------
(* The files.                                                              *)

NodeType    == [pc : {"mount", "config", "saved", "look", "delete", "create", "write"},
                config : Texts, wroteTemplate : BOOLEAN]
OverlayType == [todo : Seq(Writes), at : {None} \cup Rewritten]

(* The node's record with another step, file or note. *)
LEMMA NodeGoesOn ==
    ASSUME NEW n \in NodeType, NEW t \in Texts,
           NEW p \in {"mount", "config", "saved", "look", "delete", "create", "write"}
    PROVE  /\ [n EXCEPT !.pc = p] \in NodeType
           /\ [n EXCEPT !.pc = p, !.config = t] \in NodeType
           /\ [n EXCEPT !.config = t, !.pc = p] \in NodeType
           /\ [n EXCEPT !.pc = p, !.wroteTemplate = TRUE] \in NodeType
<1>1. [n EXCEPT !.pc = p] \in NodeType
  BY DEF NodeType
<1>2. [n EXCEPT !.pc = p, !.config = t] \in NodeType
  BY DEF NodeType
<1>3. [n EXCEPT !.config = t, !.pc = p] \in NodeType
  BY DEF NodeType
<1>4. [n EXCEPT !.pc = p, !.wroteTemplate = TRUE] \in NodeType
  <2>1. TRUE \in BOOLEAN
    OBVIOUS
  <2> QED
    BY <2>1 DEF NodeType
<1> QED
  BY <1>1, <1>2, <1>3, <1>4

(* The files with one of them changed. *)
LEMMA DiskGoesOn ==
    ASSUME NEW d \in Files, NEW t \in Texts, NEW n \in {"config", "saved"}
    PROVE  [d EXCEPT ![n] = t] \in Files
BY DEF Files

(* What the user asks of the overlay is a sequence of writes. *)
LEMMA OverlayWrites ==
    ASSUME NEW n \in Nets
    PROVE  /\ SelectNetwork(n) \in Seq(Writes)
           /\ SaveAndSelectNetwork(n) \in Seq(Writes)
           /\ ToggleService \in Seq(Writes)
<1>1. Line("selected", n) \in Lines /\ Line("nwid", n) \in Lines /\ Line("toggle", None) \in Lines
  BY DEF Line, Lines
<1>2. /\ Write("saved", Own, Line("selected", n)) \in Writes
      /\ Write("saved", n, Line("nwid", n)) \in Writes
      /\ Write("config", Own, Line("toggle", None)) \in Writes
  BY <1>1 DEF Write, Writes
<1> QED
  BY <1>2 DEF SelectNetwork, SaveAndSelectNetwork, ToggleService

(* The overlay keeps the types... *)
LEMMA OverlayTypes ==
    ASSUME FilesTypeOK, UseOverlay \/ OverlayStep
    PROVE  FilesTypeOK'
<1>1. disk \in Files /\ overlay \in OverlayType
  BY DEF FilesTypeOK, OverlayType
<1>2. CASE UseOverlay
  <2>1. overlay'.at = overlay.at /\ overlay'.todo \in Seq(Writes) /\ overlay' \in OverlayType
    <3>1. PICK writes \in {SaveAndSelectNetwork(n) : n \in Nets} \cup {ToggleService}
             \cup {SelectNetwork(n) : n \in {m \in Nets : ParseSavedNetwork(Text(disk.saved), m) # None}} :
             overlay' = [overlay EXCEPT !.todo = writes]
      BY <1>2 DEF UseOverlay
    <3>2. ToggleService \in Seq(Writes)
      BY DEF ToggleService, Write, Writes, Line, Lines
    <3>3. writes \in Seq(Writes)
      BY <3>2, OverlayWrites
    <3> QED
      BY <1>1, <3>1, <3>3 DEF OverlayType
  <2>2. choices' \in 0..MaxChoices
    BY <1>2, SettingsAssumption DEF UseOverlay, FilesTypeOK
  <2> QED
    BY <1>2, <2>1, <2>2 DEF UseOverlay, FilesTypeOK, OverlayType
<1>3. CASE OpenForWriting
  <2> DEFINE w == Head(overlay.todo)
             text == SetIniFileValue(disk[w.file], w)
  <2>1. overlay.todo \in Seq(Writes) /\ overlay.todo # <<>>
    BY <1>1, <1>3 DEF OpenForWriting, OverlayType
  <2>2. w \in Writes /\ Tail(overlay.todo) \in Seq(Writes)
    BY <2>1
  <2>3. w.file \in {"config", "saved"} /\ disk[w.file] \in Texts
    BY <1>1, <2>2 DEF Writes, Files
  <2>4. text \in Seq(Lines)
    BY <2>2, <2>3, SetIniType
  <2>5. overlay' = [todo |-> Tail(overlay.todo),
                    at |-> [file |-> w.file, text |-> text, old |-> disk[w.file]]]
        /\ disk' = [disk EXCEPT ![w.file] = <<>>]
        /\ UNCHANGED <<choices, node, nwid, reboots>>
    BY <1>3 DEF OpenForWriting
  <2> HIDE DEF w, text
  <2>6. disk' \in Files
    <3>1. <<>> \in Texts
      BY DEF Texts
    <3> QED
      BY <1>1, <2>3, <2>5, <3>1, DiskGoesOn
  <2>7. overlay' \in OverlayType
    BY <2>2, <2>3, <2>4, <2>5 DEF OverlayType, Rewritten
  <2> QED
    BY <2>5, <2>6, <2>7 DEF FilesTypeOK, OverlayType
<1>4. CASE FinishWriting
  <2>1. overlay.at \in Rewritten
    BY <1>1, <1>4 DEF FinishWriting, OverlayType
  <2>2. overlay.at.text \in Texts /\ overlay.at.file \in {"config", "saved"}
    BY <2>1 DEF Rewritten, Texts
  <2>3. disk' \in Files
    BY <1>1, <1>4, <2>2, DiskGoesOn DEF FinishWriting
  <2>4. overlay' \in OverlayType
    BY <1>1, <1>4 DEF FinishWriting, OverlayType
  <2> QED
    BY <1>4, <2>3, <2>4 DEF FinishWriting, FilesTypeOK, OverlayType
<1> QED
  BY <1>2, <1>3, <1>4 DEF OverlayStep

(* ...and so does the node thread. *)
LEMMA NodeTypes ==
    ASSUME FilesTypeOK, Node
    PROVE  FilesTypeOK'
<1>1. disk \in Files /\ node \in NodeType /\ disk.config \in Texts /\ disk.saved \in Texts
  BY DEF FilesTypeOK, NodeType, Files
<1>2. \A n \in {"config", "saved"} : Reads(n) \subseteq Texts
  BY <1>1 DEF Reads, Texts
<1>3. <<>> \in Texts /\ None \in Texts
  BY DEF Texts
<1>4. CASE MountState
  <2>1. Text(disk.saved) \in Texts
    BY <1>1, TextIsLines DEF Texts
  <2>2. disk' \in Files
    BY <1>1, <1>4, <2>1, DiskGoesOn DEF MountState
  <2>3. node' \in NodeType
    BY <1>1, <1>4, NodeGoesOn DEF MountState, Goto
  <2> QED
    BY <1>4, <2>2, <2>3 DEF MountState, FilesTypeOK, NodeType
<1>5. CASE ReadConfig
  <2>1. PICK text \in Texts : node' = [node EXCEPT !.pc = "saved", !.config = text]
    BY <1>2, <1>5 DEF ReadConfig
  <2>2. node' \in NodeType
    BY <1>1, <2>1, NodeGoesOn
  <2> QED
    BY <1>5, <2>2 DEF ReadConfig, FilesTypeOK, NodeType
<1>6. CASE ReadSaved
  <2>1. PICK text \in Texts :
           /\ nwid' = IF Resolve(node.config, text) = None THEN nwid ELSE Resolve(node.config, text)
           /\ node' = [node EXCEPT !.config = None,
                                   !.pc = IF nwid' = None THEN "look" ELSE "config"]
    BY <1>2, <1>6 DEF ReadSaved
  <2>2. nwid' \in Nets \cup {None}
    <3>1. Resolve(node.config, text) \in Nets \cup {None}
      BY <1>1, ResolveType DEF NodeType
    <3> QED
      BY <2>1, <3>1 DEF FilesTypeOK
  <2>3. node' \in NodeType
    <3> DEFINE p == IF nwid' = None THEN "look" ELSE "config"
    <3>1. p \in {"mount", "config", "saved", "look", "delete", "create", "write"}
      OBVIOUS
    <3>2. node' = [node EXCEPT !.config = None, !.pc = p]
      BY <2>1
    <3> HIDE DEF p
    <3> QED
      BY <1>1, <1>3, <3>1, <3>2, NodeGoesOn
  <2> QED
    BY <1>6, <2>2, <2>3 DEF ReadSaved, FilesTypeOK, NodeType
<1>7. CASE LookForConfig
  <2>1. node' \in NodeType
    BY <1>1, <1>7, NodeGoesOn DEF LookForConfig, Goto
  <2> QED
    BY <1>7, <2>1 DEF LookForConfig, FilesTypeOK, NodeType
<1>8. CASE DeleteOld
  <2>1. disk' \in Files
    BY <1>1, <1>3, <1>8, DiskGoesOn DEF DeleteOld
  <2>2. node' \in NodeType
    BY <1>1, <1>8, NodeGoesOn DEF DeleteOld, Goto
  <2> QED
    BY <1>8, <2>1, <2>2 DEF DeleteOld, FilesTypeOK, NodeType
<1>9. CASE CreateNew
  <2>1. disk' \in Files
    BY <1>1, <1>3, <1>9, DiskGoesOn DEF CreateNew
  <2>2. node' \in NodeType
    BY <1>1, <1>3, <1>9, NodeGoesOn DEF CreateNew, Goto
  <2> QED
    BY <1>9, <2>1, <2>2 DEF CreateNew, FilesTypeOK, NodeType
<1>10. CASE WriteNew
  <2>1. Template \in Texts
    <3>1. /\ Line("section", Own) \in Lines /\ Line("network", None) \in Lines
          /\ Line("nwid", None) \in Lines /\ Line("toggle", None) \in Lines
      BY DEF Line, Lines
    <3> QED
      BY <3>1 DEF Template, Texts
  <2>2. disk' \in Files
    BY <1>1, <1>10, <2>1, DiskGoesOn DEF WriteNew
  <2>3. node' \in NodeType
    BY <1>1, <1>3, <1>10, NodeGoesOn DEF WriteNew
  <2> QED
    BY <1>10, <2>2, <2>3 DEF WriteNew, FilesTypeOK, NodeType
<1> QED
  BY <1>4, <1>5, <1>6, <1>7, <1>8, <1>9, <1>10 DEF Node

(* After a power failure everything but the files begins again. *)
LEMMA PowerTypes ==
    ASSUME FilesTypeOK, PowerFailure
    PROVE  FilesTypeOK'
<1>1. node' \in NodeType
  <2>1. FALSE \in BOOLEAN
    OBVIOUS
  <2> QED
    BY <2>1 DEF PowerFailure, Booting, NodeType, Texts
<1>2. overlay' \in OverlayType
  BY DEF PowerFailure, Resting, OverlayType
<1>3. disk' \in Files /\ choices' \in 0..MaxChoices
  BY SettingsAssumption DEF PowerFailure, FilesTypeOK
<1>4. reboots' \in 0..MaxReboots
  BY SettingsAssumption DEF PowerFailure, FilesTypeOK
<1> QED
  BY <1>1, <1>2, <1>3, <1>4 DEF PowerFailure, FilesTypeOK, NodeType, OverlayType

(* Every step that may touch the files. *)
FilesMayStep == UseOverlay \/ OverlayStep \/ Node \/ PowerFailure

LEMMA FilesTypeStep == FilesTypeOK /\ FilesMayStep => FilesTypeOK'
BY OverlayTypes, NodeTypes, PowerTypes DEF FilesMayStep

(* What the files are while they are rewritten, and what the node knows. *)
LEMMA KeptStep ==
    ASSUME FilesInv, FilesMayStep
    PROVE  FilesKept'
<1>1. /\ CutMeansEmpty /\ ConfigKept /\ ReadHolds
      /\ disk \in Files /\ overlay \in OverlayType /\ node \in NodeType
  BY DEF FilesInv, FilesTypeOK, FilesKept, OverlayType, NodeType
<1>2. CASE UseOverlay
  <2>1. PICK writes \in {SaveAndSelectNetwork(n) : n \in Nets} \cup {ToggleService}
             \cup {SelectNetwork(n) : n \in {m \in Nets : ParseSavedNetwork(Text(disk.saved), m) # None}} :
             overlay' = [overlay EXCEPT !.todo = writes]
    BY <1>2 DEF UseOverlay
  <2>2. overlay'.at = overlay.at /\ overlay'.todo = writes /\ UNCHANGED <<disk, node>>
    BY <1>1, <1>2, <2>1 DEF UseOverlay, OverlayType
  <2>3. \A i \in DOMAIN writes : writes[i].file = "config" => writes[i].line.k = "toggle"
    <3>1. CASE writes = ToggleService
      BY <3>1 DEF ToggleService, Write, Line
    <3>2. ASSUME NEW n \in Nets, writes = SelectNetwork(n)
          PROVE  \A i \in DOMAIN writes : writes[i].file = "saved"
      BY <3>2 DEF SelectNetwork, Write
    <3>3. ASSUME NEW n \in Nets, writes = SaveAndSelectNetwork(n)
          PROVE  \A i \in DOMAIN writes : writes[i].file = "saved"
      <4> DEFINE first == Write("saved", n, Line("nwid", n))
                 second == Write("saved", Own, Line("selected", n))
      <4>1. first.file = "saved" /\ second.file = "saved"
        BY DEF Write
      <4>2. writes = <<first>> \o <<second>>
        BY <3>3 DEF SaveAndSelectNetwork, SelectNetwork
      <4> HIDE DEF first, second
      <4>3. <<first>> \in Seq({first}) /\ <<second>> \in Seq({second})
            /\ Len(<<first>>) = 1 /\ Len(<<second>>) = 1
        OBVIOUS
      <4>4. DOMAIN writes = 1..2 /\ writes[1] = first /\ writes[2] = second
        BY <4>2, <4>3
      <4> QED
        BY <4>1, <4>4
    <3> QED
      BY <2>1, <3>1, <3>2, <3>3
  <2> QED
    BY <1>1, <2>2, <2>3 DEF FilesKept, CutMeansEmpty, ConfigKept, ReadHolds, Whole, Busy
<1>3. CASE OpenForWriting
  <2> DEFINE w == Head(overlay.todo)
             text == SetIniFileValue(disk[w.file], w)
  <2>1. overlay.todo \in Seq(Writes) /\ overlay.todo # <<>>
    BY <1>1, <1>3 DEF OpenForWriting, OverlayType
  <2>a. w \in Writes
    BY <2>1
  <2>2. w \in Writes /\ w.file \in {"config", "saved"} /\ disk[w.file] \in Texts
    BY <1>1, <2>a DEF Writes, Files
  <2>3. text \in Seq(Lines)
    BY <2>2, SetIniType
  <2>4. w.file = "config" => SameNames(text, disk[w.file])
    <3>1. w.file = "config" => w.line.k = "toggle"
      BY <1>1, <2>1 DEF ConfigKept
    <3> QED
      BY <2>2, <3>1, ToggleKeepsNames
  <2>5. \A i \in DOMAIN Tail(overlay.todo) :
           Tail(overlay.todo)[i].file = "config" => Tail(overlay.todo)[i].line.k = "toggle"
    BY <1>1, <2>1 DEF ConfigKept
  <2>6. overlay' = [todo |-> Tail(overlay.todo),
                    at |-> [file |-> w.file, text |-> text, old |-> disk[w.file]]]
        /\ disk' = [disk EXCEPT ![w.file] = <<>>] /\ UNCHANGED node /\ overlay.at = None
    BY <1>3 DEF OpenForWriting
  <2> HIDE DEF w, text
  <2>7. overlay'.at \in Rewritten /\ overlay'.at.file = w.file
    BY <2>2, <2>3, <2>6 DEF Rewritten
  <2>8. overlay'.at # None
    BY <2>7, SettingsAssumption
  <2>9. CutMeansEmpty'
    BY <1>1, <2>2, <2>6, <2>7, <2>8 DEF CutMeansEmpty, Busy, Files
  <2>10. ConfigKept'
    <3>1. overlay'.at.text = text /\ overlay'.at.old = disk[w.file]
          /\ overlay'.todo = Tail(overlay.todo)
      BY <2>6
    <3>2. (Busy("config") => SameNames(overlay.at.text, overlay.at.old))'
      <4>1. Busy("config")' => w.file = "config"
        BY <2>7 DEF Busy
      <4> QED
        BY <2>4, <3>1, <4>1 DEF SameNames
    <3> QED
      BY <2>5, <3>1, <3>2 DEF ConfigKept
  <2>11. Whole("config")' = Whole("config")
    <3>1. Whole("config") = disk.config
      BY <2>6 DEF Whole, Busy
    <3>2. CASE w.file = "config"
      BY <2>6, <2>7, <2>8, <3>1, <3>2 DEF Whole, Busy
    <3>3. CASE w.file = "saved"
      <4>1. disk'.config = disk.config
        BY <1>1, <2>6, <3>3 DEF Files
      <4> QED
        BY <2>7, <3>1, <3>3, <4>1 DEF Whole, Busy
    <3> QED
      BY <2>2, <3>2, <3>3
  <2>12. ReadHolds'
    BY <1>1, <2>6, <2>11 DEF ReadHolds, SameNames
  <2> QED
    BY <2>9, <2>10, <2>12 DEF FilesKept
<1>4. CASE FinishWriting
  <2>1. /\ overlay'.at = None /\ overlay'.todo = overlay.todo /\ UNCHANGED node
        /\ overlay.at \in Rewritten /\ overlay.at # None
        /\ disk' = [disk EXCEPT ![overlay.at.file] = overlay.at.text]
    BY <1>1, <1>4 DEF FinishWriting, OverlayType
  <2>2. CutMeansEmpty' /\ ConfigKept'
    BY <1>1, <2>1 DEF CutMeansEmpty, ConfigKept, Busy
  <2>3. overlay.at.file \in {"config", "saved"}
    BY <2>1 DEF Rewritten
  <2>4. Whole("config")' = disk'.config
    BY <2>1 DEF Whole, Busy
  <2>5. CASE overlay.at.file = "config"
    <3>1. Whole("config")' = overlay.at.text /\ Whole("config") = overlay.at.old
      BY <1>1, <2>1, <2>4, <2>5 DEF Whole, Busy, Files
    <3>2. SameNames(overlay.at.text, overlay.at.old)
      BY <1>1, <2>1, <2>5 DEF ConfigKept, Busy
    <3>3. ReadHolds'
      BY <1>1, <2>1, <3>1, <3>2 DEF ReadHolds, SameNames
    <3> QED
      BY <2>2, <3>3 DEF FilesKept
  <2>6. CASE overlay.at.file = "saved"
    <3>1. Whole("config")' = Whole("config")
      BY <1>1, <2>1, <2>4, <2>6 DEF Whole, Busy, Files
    <3>2. ReadHolds'
      BY <1>1, <2>1, <3>1 DEF ReadHolds, SameNames
    <3> QED
      BY <2>2, <3>2 DEF FilesKept
  <2> QED
    BY <2>3, <2>5, <2>6
<1>5. CASE ReadConfig
  <2>1. PICK text \in Reads("config") : node' = [node EXCEPT !.pc = "saved", !.config = text]
    BY <1>5 DEF ReadConfig
  <2>2. node'.config = text /\ UNCHANGED <<disk, overlay>>
    BY <1>1, <1>5, <2>1 DEF ReadConfig, NodeType
  <2>3. Text(text) = <<>> \/ text = Whole("config")
    <3>1. CASE Busy("config")
      BY <1>1, <3>1 DEF Reads, CutMeansEmpty, Text
    <3>2. CASE ~Busy("config")
      BY <3>2 DEF Reads, Whole
    <3> QED
      BY <3>1, <3>2
  <2>4. ReadHolds'
    BY <2>2, <2>3 DEF ReadHolds, SameNames, Whole, Busy
  <2> QED
    BY <1>1, <2>2, <2>4 DEF FilesKept, CutMeansEmpty, ConfigKept, Busy
<1>6. CASE MountState \/ ReadSaved \/ LookForConfig \/ DeleteOld \/ CreateNew \/ WriteNew
  <2>1. node'.pc # "saved" /\ UNCHANGED overlay
    BY <1>1, <1>6 DEF MountState, ReadSaved, LookForConfig, DeleteOld, CreateNew, WriteNew,
       Goto, NodeType
  <2>2. ASSUME NEW f \in {"config", "saved"}, Busy(f)
        PROVE  disk'[f] = <<>>
    <3>1. disk[f] = <<>> /\ Text(<<>>) = <<>>
      BY <1>1, <2>2 DEF CutMeansEmpty, Text
    <3>a. <<>> \in Seq(Lines)
      OBVIOUS
    <3>2. <<>> # None
      BY <3>a, SettingsAssumption
    <3>3. CASE MountState
      BY <1>1, <3>1, <3>3 DEF MountState, Files
    <3>4. CASE ReadSaved \/ LookForConfig
      BY <3>1, <3>4 DEF ReadSaved, LookForConfig
    <3>5. CASE DeleteOld \/ WriteNew
      BY <1>1, <2>2, <3>1, <3>5 DEF DeleteOld, WriteNew, Files
    <3>6. CASE CreateNew
      BY <1>1, <2>2, <3>1, <3>2, <3>6 DEF CreateNew, Files
    <3> QED
      BY <1>6, <3>3, <3>4, <3>5, <3>6
  <2>3. CutMeansEmpty'
    BY <2>1, <2>2 DEF CutMeansEmpty, Busy
  <2> QED
    BY <1>1, <2>1, <2>3 DEF FilesKept, ConfigKept, ReadHolds, Busy
<1>7. CASE PowerFailure
  <2>1. overlay'.at = None /\ overlay'.todo = <<>> /\ node'.pc = "mount"
    BY <1>7 DEF PowerFailure, Resting, Booting
  <2> QED
    BY <2>1 DEF FilesKept, CutMeansEmpty, ConfigKept, ReadHolds, Busy
<1> QED
  BY <1>2, <1>3, <1>4, <1>5, <1>6, <1>7 DEF FilesMayStep, OverlayStep, Node

-----------------------------------------------------------------------------
(* What the game is told.                                                  *)

RequestType == [open : BOOLEAN, barrier : BOOLEAN, option : Options]
ServerType  == [pc : {"idle", "wire", "address", "again"}, looks : 0..MaxLooks]
AnswerType  == [call : {"begin", "state", "other"}, late : BOOLEAN,
                state : {0, Error, OnHold, Available}]

(* What every step of the shim's world leaves behind: its types. *)
LEMMA AnswersType ==
    ASSUME NEW c \in {"begin", "state", "other"}, NEW st \in {0, Error, OnHold, Available},
           NEW l \in BOOLEAN, Answers(c, st, l)
    PROVE  /\ answer' \in AnswerType /\ server' \in ServerType /\ server'.pc = "idle"
           /\ answer'.call = c /\ answer'.state = st
BY NifmAssumption DEF Answers, AnswerType, Idle, ServerType

LEMMA RequestTypes ==
    ASSUME NEW r \in RequestType
    PROVE  /\ NoRequest \in RequestType
           /\ [NoRequest EXCEPT !.open = TRUE] \in RequestType
           /\ [r EXCEPT !.barrier = FALSE] \in RequestType
           /\ \A o \in Options : [r EXCEPT !.option = o] \in RequestType
           /\ \A b \in BOOLEAN : [r EXCEPT !.barrier = b] \in RequestType
<1>0. TRUE \in BOOLEAN /\ FALSE \in BOOLEAN
  OBVIOUS
<1>1. NoRequest \in RequestType
  BY <1>0 DEF NoRequest, RequestType, Options
<1>2. [NoRequest EXCEPT !.open = TRUE] \in RequestType
  BY <1>0 DEF NoRequest, RequestType, Options
<1>3. [r EXCEPT !.barrier = FALSE] \in RequestType
  BY <1>0 DEF RequestType
<1>4. \A o \in Options : [r EXCEPT !.option = o] \in RequestType
  BY DEF RequestType
<1>5. \A b \in BOOLEAN : [r EXCEPT !.barrier = b] \in RequestType
  BY DEF RequestType
<1> QED
  BY <1>1, <1>2, <1>3, <1>4, <1>5

(* The history and the variables of a step that is remembered. *)
LEMMA RememberTypes ==
    ASSUME NifmTypeOK, Remember, wire' \in BOOLEAN, address' \in BOOLEAN
    PROVE  seen' \in [wire : BOOLEAN, both : BOOLEAN] /\ told' \in BOOLEAN
<1> DEFINE up == wire' \/ (server # Idle /\ seen.wire)
           both == (up /\ address') \/ (server # Idle /\ seen.both)
<1>1. seen' = [wire |-> up, both |-> both]
  BY Zenon DEF Remember
<1>2. up \in BOOLEAN /\ both \in BOOLEAN
  BY Zenon
<1>3. told' \in BOOLEAN
  BY Zenon DEF Remember
<1> HIDE DEF up, both
<1> QED
  BY <1>1, <1>2, <1>3

(* A call that is answered at once: the game's own calls, but one. *)
LEMMA CallAnswered ==
    ASSUME NifmInv, server = Idle, UNCHANGED <<title, wire, address>>, Remember,
           NEW c \in {"begin", "state", "other"}, NEW st \in {0, Error, OnHold, Available},
           Answers(c, st, FALSE), request' \in RequestType, real' \in {Error, OnHold, Available},
           request'.barrier => request.barrier /\ c # "begin"
    PROVE  NifmInv'
<1>1. /\ answer' \in AnswerType /\ server' \in ServerType /\ server'.pc = "idle"
      /\ answer'.call = c /\ answer'.state = st
  <2>1. FALSE \in BOOLEAN
    OBVIOUS
  <2> QED
    BY <2>1, AnswersType
<1>2. seen' \in [wire : BOOLEAN, both : BOOLEAN] /\ told' \in BOOLEAN
  BY RememberTypes DEF NifmInv, NifmTypeOK
<1>3. NifmTypeOK'
  BY <1>1, <1>2 DEF NifmInv, NifmTypeOK, RequestType, ServerType, AnswerType
<1>4. HeldCall'
  BY <1>1 DEF HeldCall
<1>5. BarrierTold'
  <2>1. server.pc = "idle"
    BY DEF Idle
  <2>2. request'.barrier => told
    BY <2>1 DEF NifmInv, BarrierTold
  <2>3. c # "begin" /\ told => told'
    BY <1>1 DEF Remember
  <2> QED
    BY <1>1, <2>2, <2>3 DEF BarrierTold
<1> QED
  BY <1>3, <1>4, <1>5 DEF NifmInv

(* The transport and Nintendo's service may change under a held call. *)
LEMMA WorldGoesOn ==
    ASSUME NifmInv, UNCHANGED <<title, request, server, answer>>, Remember,
           wire' \in BOOLEAN, address' \in BOOLEAN, real' \in {Error, OnHold, Available}
    PROVE  NifmInv'
<1>1. seen' \in [wire : BOOLEAN, both : BOOLEAN] /\ told' \in BOOLEAN
  BY RememberTypes DEF NifmInv
<1>2. NifmTypeOK'
  BY <1>1 DEF NifmInv, NifmTypeOK
<1>3. HeldCall'
  <2>1. server.pc = "address" => seen'.wire
    <3>1. server.pc = "address" => server # Idle /\ seen.wire
      BY DEF NifmInv, HeldCall, Idle
    <3> QED
      BY <3>1 DEF Remember
  <2> QED
    BY <2>1 DEF NifmInv, HeldCall, UsesRyujinxNifmRequestModel
<1>4. BarrierTold'
  BY DEF NifmInv, BarrierTold, Remember
<1> QED
  BY <1>2, <1>3, <1>4 DEF NifmInv

(* The calls of the game. *)
LEMMA CallsKeep ==
    ASSUME NifmInv, Calls, Remember
    PROVE  NifmInv'
<1>1. request \in RequestType /\ real \in {Error, OnHold, Available}
      /\ {0, Error, OnHold, Available} = {0, 1, 2, 3}
  BY DEF NifmInv, NifmTypeOK, RequestType, Error, OnHold, Available
<1>2. CASE CreateRequest
  <2>1. request' \in RequestType /\ ~request'.barrier
    BY <1>1, <1>2, RequestTypes DEF CreateRequest, NoRequest
  <2> QED
    BY <1>2, <2>1, CallAnswered DEF CreateRequest
<1>3. CASE CloseRequest
  <2>1. request' \in RequestType /\ ~request'.barrier
    BY <1>1, <1>3, RequestTypes DEF CloseRequest, NoRequest
  <2> QED
    BY <1>3, <2>1, CallAnswered DEF CloseRequest
<1>4. CASE Submit \/ Cancel
  <2>1. request' \in RequestType /\ ~request'.barrier
    BY <1>1, <1>4, RequestTypes DEF Submit, Cancel, Begun, RequestType
  <2>2. real' \in {Error, OnHold, Available}
    BY <1>1, <1>4 DEF Submit, Cancel
  <2> QED
    BY <1>4, <2>1, <2>2, CallAnswered DEF Submit, Cancel
<1>5. ASSUME NEW o \in Options, SetConnectionConfirmationOption(o)
      PROVE  NifmInv'
  <2>1. request' \in RequestType /\ (request'.barrier => request.barrier)
    BY <1>1, <1>5, RequestTypes DEF SetConnectionConfirmationOption, RequestType
  <2> QED
    BY <1>1, <1>5, <2>1, CallAnswered DEF SetConnectionConfirmationOption
<1>6. CASE GetRyujinxState
  BY <1>1, <1>6, CallAnswered DEF GetRyujinxState
<1>7. CASE GetRequestState
  <2> DEFINE hold == real = Available /\ ~request.barrier
  <2>1. request' = [request EXCEPT !.barrier = @ \/ hold]
    BY <1>7 DEF GetRequestState
  <2>2. request' \in RequestType
    <3>1. (request.barrier \/ hold) \in BOOLEAN
      BY Zenon
    <3> QED
      BY <1>1, <2>1, <3>1, RequestTypes
  <2>3. CASE hold
    <3>1. server' = [pc |-> "wire", looks |-> 0] /\ answer' = NoAnswer
          /\ UNCHANGED <<title, wire, address, real>> /\ ~UsesRyujinxNifmRequestModel
      BY <1>7, <2>3 DEF GetRequestState
    <3>2. answer' \in AnswerType /\ answer'.call # "begin"
      <4>1. FALSE \in BOOLEAN
        OBVIOUS
      <4> QED
        BY <3>1, <4>1 DEF NoAnswer, AnswerType
    <3>3. server' \in ServerType /\ server'.pc = "wire" /\ server'.looks < MaxLooks
      BY <3>1, NifmAssumption DEF ServerType
    <3>4. seen' \in [wire : BOOLEAN, both : BOOLEAN] /\ told' \in BOOLEAN
      BY <3>1, RememberTypes DEF NifmInv, NifmTypeOK
    <3>5. NifmTypeOK'
      BY <2>2, <3>1, <3>2, <3>3, <3>4 DEF NifmInv, NifmTypeOK, RequestType, ServerType, AnswerType
    <3>6. HeldCall' /\ BarrierTold'
      BY <3>1, <3>2, <3>3 DEF HeldCall, BarrierTold, UsesRyujinxNifmRequestModel
    <3> QED
      BY <3>5, <3>6 DEF NifmInv
  <2>4. CASE ~hold
    <3>1. request'.barrier => request.barrier
      BY <1>1, <2>1, <2>4 DEF RequestType
    <3>2. Answers("state", real, FALSE) /\ server = Idle /\ UNCHANGED <<title, wire, address, real>>
      BY <1>7, <2>4 DEF GetRequestState
    <3> QED
      BY <1>1, <2>2, <3>1, <3>2, CallAnswered
  <2> QED
    BY <2>3, <2>4
<1> QED
  BY <1>2, <1>3, <1>4, <1>5, <1>6, <1>7 DEF Calls

(* A held call goes on looking, or ends with the Available it was held for. *)
LEMMA ServerKeeps ==
    ASSUME NifmInv, Server, Remember
    PROVE  NifmInv'
<1>1. UNCHANGED <<title, wire, address, request, real>> /\ server.pc # "idle" /\ server # Idle
      /\ server \in ServerType
  <2>1. server \in ServerType
    BY DEF NifmInv, NifmTypeOK, ServerType
  <2>2. CASE LookAtWire
    BY <2>1, <2>2 DEF LookAtWire, Idle
  <2>3. CASE LookAtAddress
    BY <2>1, <2>3 DEF LookAtAddress, Idle
  <2>4. CASE LookAgain
    BY <2>1, <2>4 DEF LookAgain, Idle
  <2> QED
    BY <2>2, <2>3, <2>4 DEF Server
<1>2. seen' \in [wire : BOOLEAN, both : BOOLEAN] /\ told' \in BOOLEAN
  BY <1>1, RememberTypes DEF NifmInv, NifmTypeOK
<1>3. ASSUME NEW l \in BOOLEAN, Answers("state", Available, l)
      PROVE  NifmInv'
  <2>1. /\ answer' \in AnswerType /\ server' \in ServerType /\ server'.pc = "idle"
        /\ answer'.call = "state" /\ answer'.state = Available
    BY <1>3, AnswersType
  <2>2. NifmTypeOK'
    BY <1>1, <1>2, <2>1 DEF NifmInv, NifmTypeOK, ServerType, AnswerType
  <2>3. HeldCall' /\ BarrierTold'
    BY <2>1 DEF HeldCall, BarrierTold, Remember
  <2> QED
    BY <2>2, <2>3 DEF NifmInv
<1>4. ASSUME server' \in ServerType, UNCHANGED answer,
             server'.pc \in {"wire", "address"} => server'.looks < MaxLooks,
             server'.pc = "address" => wire, server'.pc # "idle"
      PROVE  NifmInv'
  <2>1. NifmTypeOK'
    BY <1>1, <1>2, <1>4 DEF NifmInv, NifmTypeOK, ServerType
  <2>2. wire => seen'.wire
    BY <1>1 DEF Remember
  <2>3. HeldCall' /\ BarrierTold'
    BY <1>1, <1>4, <2>2 DEF NifmInv, HeldCall, BarrierTold, UsesRyujinxNifmRequestModel
  <2> QED
    BY <2>1, <2>3 DEF NifmInv
<1>5. server.pc \in {"wire", "address"} =>
         Looked \in ServerType /\ Looked.pc = "again"
  BY <1>1, NifmAssumption DEF NifmInv, HeldCall, Looked, ServerType
<1>6. CASE LookAtWire
  <2>1. CASE wire
    <3>1. server' = [server EXCEPT !.pc = "address"] /\ UNCHANGED answer /\ server.pc = "wire"
      BY <1>6, <2>1 DEF LookAtWire
    <3>2. server' \in ServerType /\ server'.pc = "address" /\ server'.looks = server.looks
      BY <1>1, <3>1 DEF ServerType
    <3>3. server.looks < MaxLooks
      BY <3>1 DEF NifmInv, HeldCall
    <3> QED
      BY <1>4, <2>1, <3>1, <3>2, <3>3
  <2>2. CASE ~wire
    <3>1. server' = Looked /\ UNCHANGED answer
      BY <1>6, <2>2 DEF LookAtWire
    <3> QED
      BY <1>4, <1>5, <1>6, <3>1 DEF LookAtWire
  <2> QED
    BY <2>1, <2>2
<1>7. CASE LookAtAddress
  <2>1. CASE address
    <3>1. FALSE \in BOOLEAN
      OBVIOUS
    <3> QED
      BY <1>3, <1>7, <2>1, <3>1 DEF LookAtAddress
  <2>2. CASE ~address
    BY <1>4, <1>5, <1>7, <2>2 DEF LookAtAddress
  <2> QED
    BY <2>1, <2>2
<1>8. CASE LookAgain
  <2>1. CASE TimeIsUp
    <3>1. TRUE \in BOOLEAN
      OBVIOUS
    <3> QED
      BY <1>3, <1>8, <2>1, <3>1 DEF LookAgain
  <2>2. CASE ~TimeIsUp
    <3>1. server' = [server EXCEPT !.pc = "wire"] /\ UNCHANGED answer
      BY <1>8, <2>2 DEF LookAgain
    <3>2. server' \in ServerType /\ server'.pc = "wire" /\ server'.looks < MaxLooks
      BY <1>1, <2>2, <3>1, NifmAssumption DEF ServerType, TimeIsUp
    <3> QED
      BY <1>4, <3>1, <3>2
  <2> QED
    BY <2>1, <2>2
<1> QED
  BY <1>6, <1>7, <1>8 DEF Server

-----------------------------------------------------------------------------
(* The console.                                                            *)

LEMMA InitInv == Init => Inv
<1> SUFFICES ASSUME Init
             PROVE  Inv
  OBVIOUS
<1>0. TRUE \in BOOLEAN /\ FALSE \in BOOLEAN
  OBVIOUS
<1>1. FilesTypeOK
  <2>1. disk \in Files
    BY SettingsAssumption DEF Init, FilesInit
  <2>2. overlay \in OverlayType
    BY DEF Init, FilesInit, Resting, OverlayType
  <2>3. node \in NodeType
    BY <1>0 DEF Init, FilesInit, Booting, NodeType, Texts
  <2>4. choices \in 0..MaxChoices /\ reboots \in 0..MaxReboots /\ nwid \in Nets \cup {None}
    BY SettingsAssumption DEF Init, FilesInit
  <2> QED
    BY <2>1, <2>2, <2>3, <2>4 DEF FilesTypeOK, OverlayType, NodeType
<1>2. FilesKept
  BY DEF Init, FilesInit, Resting, Booting, FilesKept, CutMeansEmpty, ConfigKept, ReadHolds, Busy
<1>3. NifmTypeOK
  <2>1. wire \in BOOLEAN /\ address \in BOOLEAN /\ told \in BOOLEAN
    BY Zenon DEF Init, NifmInit
  <2>2. request \in RequestType
    BY <1>0 DEF Init, NifmInit, NoRequest, RequestType, Options
  <2>3. server \in ServerType
    BY NifmAssumption DEF Init, NifmInit, Idle, ServerType
  <2>4. answer \in AnswerType
    BY <1>0 DEF Init, NifmInit, NoAnswer, AnswerType
  <2>5. seen \in [wire : BOOLEAN, both : BOOLEAN]
    BY <1>0 DEF Init, NifmInit, Unseen
  <2>6. title \in {"stock", "ryujinx"} /\ real \in {Error, OnHold, Available}
    BY DEF Init, NifmInit
  <2> QED
    BY <2>1, <2>2, <2>3, <2>4, <2>5, <2>6 DEF NifmTypeOK, RequestType, ServerType, AnswerType
<1>4. HeldCall /\ BarrierTold
  BY DEF Init, NifmInit, Idle, NoRequest, HeldCall, BarrierTold
<1> QED
  BY <1>1, <1>2, <1>3, <1>4 DEF Inv, FilesInv, NifmInv

(* A part that a step leaves alone stays as it is. *)
LEMMA FilesLeftAlone ==
    ASSUME FilesInv, UNCHANGED filesVars
    PROVE  FilesInv'
<1>1. FilesTypeOK'
  BY DEF FilesInv, FilesTypeOK, filesVars
<1>2. FilesKept'
  BY DEF FilesInv, FilesKept, CutMeansEmpty, ConfigKept, ReadHolds, Whole, Busy, filesVars
<1> QED
  BY <1>1, <1>2 DEF FilesInv

LEMMA NifmLeftAlone ==
    ASSUME NifmInv, UNCHANGED nifmVars
    PROVE  NifmInv'
<1>1. NifmTypeOK'
  BY DEF NifmInv, NifmTypeOK, nifmVars
<1>2. HeldCall' /\ BarrierTold'
  BY DEF NifmInv, HeldCall, BarrierTold, UsesRyujinxNifmRequestModel, nifmVars
<1> QED
  BY <1>1, <1>2 DEF NifmInv

LEMMA FilesChange ==
    ASSUME FilesInv, FilesMayStep
    PROVE  FilesInv'
BY FilesTypeStep, KeptStep DEF FilesInv

LEMMA Invariance == Spec => []Inv
<1>1. Inv /\ [Next]_vars => Inv'
  <2> SUFFICES ASSUME Inv, [Next]_vars
               PROVE  Inv'
    OBVIOUS
  <2>0. FilesInv /\ NifmInv /\ NifmTypeOK
    BY DEF Inv, NifmInv
  <2>1. CASE FilesStep
    BY <2>0, <2>1, FilesChange, NifmLeftAlone DEF FilesStep, FilesMayStep, Inv
  <2>2. CASE Join
    <3>1. FilesInv'
      BY <2>0, <2>2, FilesChange DEF Join, FilesMayStep, Node
    <3>2. NifmInv'
      <4>1. wire' \in BOOLEAN /\ address' \in BOOLEAN
        BY <2>2, Zenon DEF Join
      <4>2. real' \in {Error, OnHold, Available}
        BY <2>0, <2>2 DEF Join, NifmTypeOK
      <4> QED
        BY <2>0, <2>2, <4>1, <4>2, WorldGoesOn DEF Join
    <3> QED
      BY <3>1, <3>2 DEF Inv
  <2>3. CASE TransportStep
    <3>1. wire' \in BOOLEAN /\ address' \in BOOLEAN
      BY <2>0, <2>3 DEF TransportStep, WireChanges, AddressChanges, NifmTypeOK
    <3>2. NifmInv'
      BY <2>0, <2>3, <3>1, WorldGoesOn DEF TransportStep, WireChanges, AddressChanges, NifmTypeOK
    <3> QED
      BY <2>0, <2>3, <3>2, FilesLeftAlone DEF TransportStep, Inv
  <2>4. CASE NifmStep
    <3>1. CASE NifmDecides
      <4>1. wire' \in BOOLEAN /\ address' \in BOOLEAN /\ real' \in {Error, OnHold, Available}
        BY <2>0, <3>1 DEF NifmDecides, NifmTypeOK
      <4> QED
        BY <2>0, <2>4, <3>1, <4>1, WorldGoesOn, FilesLeftAlone DEF NifmStep, NifmDecides, Inv
    <3>2. CASE Calls \/ Server
      BY <2>0, <2>4, <3>2, CallsKeep, ServerKeeps, FilesLeftAlone DEF NifmStep, Inv
    <3> QED
      BY <2>4, <3>1, <3>2 DEF NifmStep
  <2>5. CASE Reboot
    <3>0. TRUE \in BOOLEAN /\ FALSE \in BOOLEAN
      OBVIOUS
    <3>1. FilesInv'
      BY <2>0, <2>5, FilesChange DEF Reboot, FilesMayStep
    <3>2. request' \in RequestType /\ ~request'.barrier
      BY <2>5, <3>0 DEF Reboot, NoRequest, RequestType, Options
    <3>3. server' \in ServerType /\ server'.pc = "idle"
      BY <2>5, NifmAssumption DEF Reboot, Idle, ServerType
    <3>4. answer' \in AnswerType
      BY <2>5, <3>0 DEF Reboot, NoAnswer, AnswerType
    <3>5. seen' \in [wire : BOOLEAN, both : BOOLEAN]
      BY <2>5, <3>0 DEF Reboot, Unseen
    <3>6. wire' \in BOOLEAN /\ address' \in BOOLEAN /\ told' \in BOOLEAN
      BY <2>5, Zenon DEF Reboot
    <3>7. NifmTypeOK'
      BY <2>0, <2>5, <3>2, <3>3, <3>4, <3>5, <3>6
         DEF Reboot, NifmTypeOK, RequestType, ServerType, AnswerType
    <3>8. HeldCall' /\ BarrierTold'
      BY <3>2, <3>3 DEF HeldCall, BarrierTold
    <3> QED
      BY <3>1, <3>7, <3>8 DEF Inv, NifmInv
  <2>6. CASE UNCHANGED vars
    BY <2>0, <2>6, FilesLeftAlone, NifmLeftAlone DEF vars, Inv
  <2> QED
    BY <2>1, <2>2, <2>3, <2>4, <2>5, <2>6 DEF Next
<1> QED
  BY InitInv, <1>1, PTL DEF Spec

(* The files, the overlay's writes, the node's network and the shim's held *)
(* call have their types, also when the power fails in the middle of a     *)
(* write; the shim never looks longer than it may.                         *)
THEOREM TypeCorrectness == Spec => []TypeOK
<1>1. Inv => TypeOK
  BY DEF Inv, FilesInv, NifmInv, TypeOK
<1> QED
  BY <1>1, Invariance, PTL

(* Whatever is on the disk and however the node's reading of two files and *)
(* the overlay's rewriting of them interleave, the node joins what the     *)
(* complete files ask for; a file it read while it was cut takes it to     *)
(* what the other one asks for, and nowhere else                           *)
(* (ResolveConfiguredNetworkId, setIniFileValue).                          *)
THEOREM JoinsOnlyWhatWasAsked == Spec => JoinsWhatWasAsked
<1> DEFINE Asked == \/ Asks(Whole("config"), Whole("saved"), nwid')
                    \/ SavedCut /\ Asks(Whole("config"), None, nwid')
                    \/ ConfigCut /\ Asks(None, Whole("saved"), nwid')
<1>1. ASSUME Inv, ReadSaved, nwid' \notin {nwid, None}
      PROVE  Asked
  <2>1. PICK text \in Reads("saved") :
           nwid' = IF Resolve(node.config, text) = None THEN nwid ELSE Resolve(node.config, text)
    BY <1>1 DEF ReadSaved
  <2>2. nwid' = Resolve(node.config, text) /\ nwid' # None
    BY <1>1, <2>1
  <2>3. Text(node.config) = <<>> \/ SameNames(node.config, Whole("config"))
    BY <1>1 DEF Inv, FilesInv, FilesKept, ReadHolds, ReadSaved
  <2>4. CASE Busy("saved")
    <3>1. text \in {None, <<>>}
      BY <1>1, <2>1, <2>4 DEF Reads, Inv, FilesInv, FilesKept, CutMeansEmpty
    <3>2. Selection(node.config, text) = None /\ ParseFirstSavedNetwork(Text(text)) = None
          /\ Selection(Whole("config"), None) = None
      BY <3>1, NothingSaved
    <3>3. nwid' = ParseNwid(Text(node.config))
      BY <2>2, <3>2 DEF Resolve
    <3>4. ParseNwid(<<>>) = None
      BY DEF ParseNwid, ValueAt, Keys
    <3>5. nwid' = ParseNwid(Text(Whole("config")))
      BY <2>2, <2>3, <3>3, <3>4 DEF SameNames
    <3> QED
      BY <2>4, <3>2, <3>5 DEF SavedCut, Asks
  <2>5. CASE ~Busy("saved")
    <3>1. text = Whole("saved")
      BY <2>1, <2>5 DEF Reads, Whole
    <3>2. CASE SameNames(node.config, Whole("config"))
      BY <2>2, <3>1, <3>2, ResolvedIsAsked
    <3>3. CASE Text(node.config) = <<>> /\ ~SameNames(node.config, Whole("config"))
      <4>1. Text(None) = <<>>
        BY DEF Text
      <4>2. SameNames(node.config, None)
        BY <3>3, <4>1 DEF SameNames
      <4>3. Asks(None, Whole("saved"), nwid')
        BY <2>2, <3>1, <4>2, ResolvedIsAsked
      <4>4. Text(Whole("config")) # <<>>
        BY <3>3 DEF SameNames
      <4> QED
        BY <3>3, <4>3, <4>4 DEF ConfigCut
    <3> QED
      BY <2>3, <3>2, <3>3
  <2> QED
    BY <2>4, <2>5
<1>2. ASSUME [Next]_vars, nwid' \notin {nwid, None}
      PROVE  ReadSaved
  BY <1>2 DEF Next, FilesStep, Join, TransportStep, NifmStep, Reboot, PowerFailure, filesVars, vars
<1>3. ASSUME Inv, [Next]_vars
      PROVE  [nwid' \notin {nwid, None} => Asked]_filesVars
  BY <1>1, <1>2, <1>3
<1> QED
  BY <1>3, Invariance, PTL DEF Spec, JoinsWhatWasAsked

(* A game is told Available only when the network is ready, the wait has   *)
(* run out, or it has been told before in this attempt                     *)
(* (WaitForLanTransportReady, GetRequestState).                            *)
THEOREM AvailableIsAlwaysEarned == Spec => AvailableIsEarned
<1> DEFINE Earned == IF UsesRyujinxNifmRequestModel THEN request.option = 1 /\ address
                     ELSE told \/ seen'.both \/ answer'.late
<1>1. ASSUME Inv, Calls, answer' # answer, answer'.state = Available
      PROVE  Earned
  <2>1. Available # 0 /\ Available # Error /\ NoAnswer.state # Available
    BY DEF Error, Available, NoAnswer
  <2>2. \A c, st, l : Answers(c, st, l) => answer'.state = st
    BY DEF Answers
  <2>3. GetRyujinxState \/ GetRequestState
    BY <1>1, <2>1, <2>2 DEF Calls, CreateRequest, CloseRequest, Submit, Cancel,
       SetConnectionConfirmationOption
  <2>4. CASE GetRyujinxState
    <3>1. answer'.state = IF RyujinxInternetEnabled THEN Available ELSE Error
      BY <2>2, <2>4 DEF GetRyujinxState
    <3> QED
      BY <1>1, <2>1, <2>4, <3>1 DEF GetRyujinxState, RyujinxInternetEnabled
  <2>5. CASE GetRequestState
    <3>1. ~UsesRyujinxNifmRequestModel /\ server = Idle
      BY <2>5 DEF GetRequestState
    <3>2. real = Available /\ request.barrier
      BY <1>1, <2>1, <2>2, <2>5 DEF GetRequestState
    <3>3. told
      BY <1>1, <3>1, <3>2 DEF Inv, NifmInv, BarrierTold, Idle
    <3> QED
      BY <3>1, <3>3
  <2> QED
    BY <2>3, <2>4, <2>5
<1>2. ASSUME Inv, Server, Remember, answer' # answer, answer'.state = Available
      PROVE  Earned
  <2>1. server.pc # "idle" /\ server # Idle
    <3>1. server.pc \in {"wire", "address", "again"}
      BY <1>2 DEF Server, LookAtWire, LookAtAddress, LookAgain
    <3> QED
      BY <3>1 DEF Idle
  <2>2. ~UsesRyujinxNifmRequestModel
    BY <1>2, <2>1 DEF Inv, NifmInv, HeldCall
  <2>3. CASE LookAtAddress
    <3>1. address /\ address' = address /\ server.pc = "address"
      BY <1>2, <2>3 DEF LookAtAddress
    <3>2. seen.wire
      BY <1>2, <3>1 DEF Inv, NifmInv, HeldCall
    <3>3. seen'.both
      BY <1>2, <2>1, <3>1, <3>2 DEF Remember
    <3> QED
      BY <2>2, <3>3
  <2>4. CASE LookAgain
    <3>1. answer'.late
      BY <1>2, <2>4 DEF LookAgain, Answers
    <3> QED
      BY <2>2, <3>1
  <2>5. ~LookAtWire
    BY <1>2 DEF LookAtWire
  <2> QED
    BY <1>2, <2>3, <2>4, <2>5 DEF Server
<1>3. ASSUME [Next]_vars, answer' # answer, answer'.state = Available
      PROVE  (Calls \/ Server) /\ Remember
  <2>1. NoAnswer.state # Available
    BY DEF NoAnswer, Available
  <2>2. ~FilesStep /\ ~Join /\ ~TransportStep /\ ~Reboot /\ ~UNCHANGED vars
    BY <1>3, <2>1 DEF FilesStep, Join, TransportStep, WireChanges, AddressChanges, Reboot,
       nifmVars, vars
  <2> QED
    BY <1>3, <2>2 DEF Next, NifmStep, NifmDecides
<1>4. ASSUME Inv, [Next]_vars
      PROVE  [answer' # answer /\ answer'.state = Available => Earned]_nifmVars
  BY <1>1, <1>2, <1>3, <1>4
<1> QED
  BY <1>4, Invariance, PTL DEF Spec, AvailableIsEarned
=============================================================================
