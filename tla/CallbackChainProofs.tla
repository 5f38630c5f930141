------------------------- MODULE CallbackChainProofs -------------------------
(***************************************************************************)
(* What the chains of callbacks guarantee for any number of them: no links *)
(* form a ring, and a chain holds what is registered, in order.            *)
(***************************************************************************)
EXTENDS CallbackChain, SequenceTheorems, NaturalsInduction, WellFoundedInduction, TLAPS

(* The links of the root's callbacks and of the CAN interface's stay apart. *)
LinksTyped ==
  /\ next \in [Nodes -> Callbacks \cup {NULL}]
  /\ \A o \in OfRoot \cup {Root} : next[o] \in OfRoot \cup {NULL}
  /\ \A o \in OfCAN : next[o] \in OfCAN \cup {NULL}
  /\ rx_cbs \in OfCAN \cup {NULL}
  /\ cur \in OfRoot \cup {NULL}

(* Every set of objects has one whose link leads out of it: no ring. *)
NoRing == \A S \in SUBSET Nodes : S # {} => \E o \in S : next[o] \notin S

-----------------------------------------------------------------------------
(* Following the links. *)

LEMMA FromItself ==
  ASSUME NEW o \in Nodes
  PROVE  o \in From(o)
  BY DEF From

LEMMA FromClosed ==
  ASSUME LinksTyped, NEW o \in Nodes
  PROVE  Closed(From(o))
<1> SUFFICES ASSUME NEW p \in From(o), next[p] # NULL
             PROVE  next[p] \in From(o)
  BY DEF Closed
<1>1. p \in Nodes /\ next[p] \in Nodes
  BY DEF From, LinksTyped, Nodes
<1>2. ASSUME NEW S \in SUBSET Nodes, o \in S, Closed(S)
      PROVE  next[p] \in S
  BY <1>2 DEF From, Closed
<1> QED BY <1>1, <1>2 DEF From

LEMMA FromRoot == LinksTyped => From(Root) \subseteq OfRoot \cup {Root}
<1> SUFFICES ASSUME LinksTyped PROVE From(Root) \subseteq OfRoot \cup {Root}
  OBVIOUS
<1>1. Closed(OfRoot \cup {Root})
  BY DEF Closed, LinksTyped
<1>2. OfRoot \cup {Root} \in SUBSET Nodes
  BY DEF Nodes, Callbacks
<1> QED BY <1>1, <1>2 DEF From

LEMMA FromCAN ==
  ASSUME LinksTyped, NEW c \in OfCAN
  PROVE  From(c) \subseteq OfCAN
<1>1. Closed(OfCAN)
  BY DEF Closed, LinksTyped
<1>2. OfCAN \in SUBSET Nodes
  BY DEF Nodes, Callbacks
<1> QED BY <1>1, <1>2 DEF From

LEMMA NoRingEnds == LinksTyped /\ NoRing => LinksEnd
<1> SUFFICES ASSUME LinksTyped, NoRing, NEW o \in Nodes
             PROVE  \E p \in From(o) : next[p] = NULL
  BY DEF LinksEnd
<1>1. From(o) \in SUBSET Nodes /\ From(o) # {}
  BY FromItself DEF From
<1>2. PICK p \in From(o) : next[p] \notin From(o)
  BY <1>1 DEF NoRing
<1> QED BY <1>2, FromClosed DEF Closed

LEMMA StepOn ==
  ASSUME LinksTyped, NEW q \in Nodes, NEW p \in From(q), p # q
  PROVE  next[q] # NULL /\ p \in From(next[q])
<1>1. p \in Nodes
  BY DEF From
<1>2. next[q] # NULL
  <2>1. next[q] = NULL => Closed({q}) /\ {q} \in SUBSET Nodes
    BY DEF Closed
  <2> QED BY <2>1 DEF From
<1>3. ASSUME NEW S \in SUBSET Nodes, next[q] \in S, Closed(S) PROVE p \in S
  <2>1. Closed(S \cup {q}) /\ S \cup {q} \in SUBSET Nodes
    BY <1>3 DEF Closed
  <2> QED BY <2>1 DEF From
<1> QED BY <1>1, <1>2, <1>3 DEF From

(* No object that c leads to leads to c. *)
LEMMA NoWayBack ==
  ASSUME LinksTyped, NoRing, NEW c \in Nodes, NEW p \in From(c), next[p] = c
  PROVE  FALSE
<1> DEFINE S == {q \in Nodes : c \in From(q)}
<1>1. \A q \in Nodes : next[q] # NULL => next[q] \in Nodes
  BY DEF LinksTyped, Nodes
<1>2. ASSUME NEW q \in Nodes, c \in From(q), q # c
      PROVE  next[q] \in S
  BY <1>1, <1>2, StepOn
<1>3. next[c] \in S
  <2>1. CASE p = c
    BY <2>1, FromItself
  <2>2. CASE p # c
    <3>1. next[c] \in Nodes /\ p \in From(next[c])
      BY <1>1, <2>2, StepOn
    <3>2. Closed(From(next[c]))
      BY <3>1, FromClosed
    <3>3. c \in From(next[c])
      BY <3>1, <3>2, ChainConstantsOK DEF Closed
    <3> QED BY <3>1, <3>3
  <2> QED BY <2>1, <2>2
<1>4. c \in S
  BY FromItself
<1>5. \A q \in S : next[q] \in S
  BY <1>2, <1>3
<1> HIDE DEF S
<1> QED BY <1>4, <1>5 DEF NoRing, S

-----------------------------------------------------------------------------
(* A registration puts c behind an end; a withdrawal bypasses it. *)

LEMMA LinkKeepsLinks ==
  ASSUME LinksTyped, NoRing, NEW root \in Nodes, NEW c \in Callbacks, Link(root, c),
         \/ root = Root /\ c \in OfRoot
         \/ root \in OfCAN /\ c \in OfCAN,
         rx_cbs' \in OfCAN \cup {NULL}, cur' \in OfRoot \cup {NULL}
  PROVE  LinksTyped' /\ NoRing'
<1> USE ChainConstantsOK DEF Nodes, Callbacks
<1>1. CASE next' = next
  BY <1>1 DEF LinksTyped, NoRing
<1>2. CASE \E p \in From(root) : next[p] = NULL /\ next' = [next EXCEPT ![p] = c, ![c] = NULL]
  <2>1. PICK p \in From(root) : next[p] = NULL /\ next' = [next EXCEPT ![p] = c, ![c] = NULL]
    BY <1>2
  <2>2. \/ p \in OfRoot \cup {Root} /\ c \in OfRoot
        \/ p \in OfCAN /\ c \in OfCAN
    BY <2>1, FromRoot, FromCAN
  <2>3. LinksTyped'
    BY <2>1, <2>2 DEF LinksTyped
  <2>4. ASSUME NEW S \in SUBSET Nodes, S # {}, \A o \in S : next'[o] \in S
        PROVE  FALSE
    <3>1. next'[c] = NULL /\ NULL \notin S
      BY <2>1 DEF LinksTyped
    <3>2. c \notin S
      BY <2>4, <3>1
    <3>3. next'[p] = c \/ p = c
      BY <2>1, <2>2 DEF LinksTyped
    <3>4. p \notin S
      BY <2>4, <3>2, <3>3
    <3>5. \A o \in S : next'[o] = next[o]
      BY <2>1, <3>2, <3>4 DEF LinksTyped
    <3> QED BY <2>4, <3>5 DEF NoRing
  <2> QED BY <2>3, <2>4 DEF NoRing
<1> QED BY <1>1, <1>2 DEF Link

LEMMA UnlinkKeepsLinks ==
  ASSUME LinksTyped, NoRing, NEW root \in Nodes, NEW c \in Callbacks, Unlink(root, c),
         \/ root = Root /\ c \in OfRoot
         \/ root \in OfCAN /\ c \in OfCAN,
         rx_cbs' \in OfCAN \cup {NULL}, cur' \in OfRoot \cup {NULL}
  PROVE  LinksTyped' /\ NoRing'
<1> USE ChainConstantsOK DEF Nodes, Callbacks
<1>1. CASE next' = next
  BY <1>1 DEF LinksTyped, NoRing
<1>2. CASE \E p \in From(root) : next[p] = c /\ next' = [next EXCEPT ![p] = next[c]]
  <2>1. PICK p \in From(root) : next[p] = c /\ next' = [next EXCEPT ![p] = next[c]]
    BY <1>2
  <2>2. \/ p \in OfRoot \cup {Root} /\ c \in OfRoot
        \/ p \in OfCAN /\ c \in OfCAN
    BY <2>1, FromRoot, FromCAN
  <2>3. LinksTyped'
    BY <2>1, <2>2 DEF LinksTyped
  <2>4. ASSUME NEW S \in SUBSET Nodes, S # {}, \A o \in S : next'[o] \in S
        PROVE  FALSE
    <3>1. CASE p \notin S
      <4>1. \A o \in S : next'[o] = next[o]
        BY <2>1, <3>1 DEF LinksTyped
      <4> QED BY <2>4, <4>1 DEF NoRing
    <3>2. CASE p \in S
      <4>1. next[c] \in S
        BY <2>1, <2>2, <2>4, <3>2 DEF LinksTyped
      <4>2. \A o \in S \cup {c} : next[o] \in S \cup {c}
        BY <2>1, <2>4, <4>1 DEF LinksTyped
      <4> QED BY <4>2 DEF NoRing
    <3> QED BY <3>1, <3>2
  <2> QED BY <2>3, <2>4 DEF NoRing
<1> QED BY <1>1, <1>2 DEF Unlink

-----------------------------------------------------------------------------
LEMMA LinksInit == Init => LinksTyped /\ NoRing
<1> SUFFICES ASSUME Init PROVE LinksTyped /\ NoRing
  OBVIOUS
<1>1. \A o \in Nodes : next[o] = NULL
  BY DEF Init
<1>2. LinksTyped
  BY <1>1 DEF Init, LinksTyped, Nodes, Callbacks
<1> QED BY <1>1, <1>2, ChainConstantsOK DEF NoRing

LEMMA LinksStep == LinksTyped /\ NoRing /\ [Next]_vars => LinksTyped' /\ NoRing'
<1> SUFFICES ASSUME LinksTyped, NoRing, [Next]_vars PROVE LinksTyped' /\ NoRing'
  OBVIOUS
<1> USE DEF Nodes, Callbacks
<1>1. rx_cbs \in OfCAN \cup {NULL} /\ cur \in OfRoot \cup {NULL}
  BY DEF LinksTyped
<1>2. ASSUME NEW c \in OfRoot, Register(c) PROVE LinksTyped' /\ NoRing'
  BY <1>1, <1>2, LinkKeepsLinks DEF Register
<1>3. ASSUME NEW c \in OfRoot, Unregister(c) PROVE LinksTyped' /\ NoRing'
  BY <1>1, <1>3, UnlinkKeepsLinks DEF Unregister
<1>4. CASE CallAll
  BY <1>4 DEF CallAll, LinksTyped, NoRing
<1>5. CASE CallNext
  BY <1>5 DEF CallNext, LinksTyped, NoRing
<1>6. ASSUME NEW c \in OfCAN, CanRegister(c) PROVE LinksTyped' /\ NoRing'
  <2>1. rx_cbs' \in OfCAN /\ Link(rx_cbs', c) /\ cur' = cur
    BY <1>1, <1>6 DEF CanRegister
  <2> QED BY <1>1, <2>1, LinkKeepsLinks
<1>7. ASSUME NEW c \in OfCAN, CanUnregister(c) PROVE LinksTyped' /\ NoRing'
  <2>1. CASE UNCHANGED next
    <3>1. rx_cbs' \in OfCAN \cup {NULL}
      BY <1>1, <1>7 DEF CanUnregister, LinksTyped
    <3> QED BY <1>7, <2>1, <3>1 DEF CanUnregister, LinksTyped, NoRing
  <2>2. CASE rx_cbs \notin {NULL, c} /\ Unlink(rx_cbs, c) /\ UNCHANGED rx_cbs
    BY <1>1, <1>7, <2>2, UnlinkKeepsLinks DEF CanUnregister
  <2> QED BY <1>7, <2>1, <2>2 DEF CanUnregister
<1>8. CASE UNCHANGED vars
  BY <1>8 DEF vars, LinksTyped, NoRing
<1> QED BY <1>2, <1>3, <1>4, <1>5, <1>6, <1>7, <1>8 DEF Next

(* From wherever a search starts, even at a stale link, the links end      *)
(* (Callbacks.h:36, 54): register_cb and unregister_cb return, for any     *)
(* number of callbacks and whatever links they kept.                       *)
THEOREM LinksAlwaysEnd == Spec => []LinksEnd
<1>1. LinksTyped /\ NoRing => LinksEnd
  BY NoRingEnds
<1> QED BY <1>1, LinksInit, LinksStep, PTL DEF Spec
-----------------------------------------------------------------------------
(* The chain behind an object r, against the sequence s of what it holds. *)

LEMMA SmallestExists ==
  ASSUME NEW T \in SUBSET Nat, T # {}
  PROVE  \E x \in T : \A y \in T : x <= y
<1> DEFINE Less == {p \in Nat \X Nat : p[1] < p[2]}
<1>1. IsWellFoundedOn(Less, Nat)
  BY NatLessThanWellFounded, Zenon DEF OpToRel
<1>2. \A x, y \in Nat : <<y, x>> \in Less <=> y < x
  OBVIOUS
<1> HIDE DEF Less
<1>3. PICK x \in T : \A y \in T : ~ (<<y, x>> \in Less)
  BY <1>1, WFMin
<1>4. \A y \in T : x \in Nat /\ y \in Nat /\ ~ (y < x)
  BY <1>2, <1>3, Zenon
<1>5. \A y \in T : x <= y
  BY <1>4
<1> QED BY <1>5

(* The links from r lead through s, which is a sequence of callbacks, and end. *)
Follows(r, s) ==
  /\ r \in Nodes
  /\ s \in Seq(Callbacks)
  /\ Runs(next[r], s)

LEMMA ChainFacts ==
  ASSUME NEW first, NEW s \in Seq(Callbacks), Runs(first, s)
  PROVE  /\ Len(s) \in Nat /\ s \in [1 .. Len(s) -> Callbacks] /\ DOMAIN s = 1 .. Len(s)
         /\ s = <<>> <=> Len(s) = 0
         /\ first = IF s = <<>> THEN NULL ELSE s[1]
         /\ \A i \in 1 .. Len(s) : s[i] \in Callbacks /\ s[i] # NULL
         /\ \A i \in 1 .. Len(s) : i = Len(s) => next[s[i]] = NULL
         /\ \A i \in 1 .. Len(s) : i # Len(s) => /\ i + 1 \in 1 .. Len(s)
                                                 /\ next[s[i]] = s[i + 1]
<1>1. /\ Len(s) \in Nat /\ s \in [1 .. Len(s) -> Callbacks] /\ DOMAIN s = 1 .. Len(s)
      /\ s = <<>> <=> Len(s) = 0
  BY LenProperties, EmptySeq
<1>2. first = IF s = <<>> THEN NULL ELSE s[1]
  BY DEF Runs
<1>3. ASSUME NEW i \in 1 .. Len(s)
      PROVE  next[s[i]] = IF i = Len(s) THEN NULL ELSE s[i + 1]
  <2>1. s # <<>>
    BY <1>1, <1>3
  <2> QED BY <2>1, Zenon DEF Runs
<1>4. \A i \in 1 .. Len(s) : s[i] \in Callbacks /\ s[i] # NULL
  BY <1>1, ChainConstantsOK DEF Nodes
<1>5. \A i \in 1 .. Len(s) : i # Len(s) => i + 1 \in 1 .. Len(s)
  <2>1. Len(s) \in Nat
    BY <1>1
  <2> QED BY <2>1
<1>6. \A i \in 1 .. Len(s) : i = Len(s) => next[s[i]] = NULL
  BY <1>3, Zenon
<1>7. \A i \in 1 .. Len(s) : i # Len(s) => next[s[i]] = s[i + 1]
  BY <1>3, Zenon
<1> QED BY <1>1, <1>2, <1>4, <1>5, <1>6, <1>7, Zenon

(* Nothing is in a chain twice: it would lie on a ring. *)
LEMMA NothingTwice ==
  ASSUME LinksTyped, NoRing, NEW first, NEW s \in Seq(Callbacks), Runs(first, s),
         NEW i \in 1 .. Len(s), NEW j \in 1 .. Len(s), s[i] = s[j]
  PROVE  i = j
<1>1. Len(s) \in Nat /\ s \in [1 .. Len(s) -> Callbacks]
  BY ChainFacts
<1>2. \A m \in 1 .. Len(s) : m # Len(s) => next[s[m]] = s[m + 1]
  BY ChainFacts
<1>3. ASSUME NEW a \in 1 .. Len(s), NEW b \in 1 .. Len(s), s[a] = s[b], a < b
      PROVE  FALSE
  <2> DEFINE S == {s[m] : m \in a .. b - 1}
  <2>1. S \in SUBSET Nodes /\ S # {}
    BY <1>1, <1>3 DEF Nodes
  <2>2. ASSUME NEW m \in a .. b - 1
        PROVE  next[s[m]] \in S
    <3>1. m \in 1 .. Len(s) /\ m # Len(s)
      <4>1. Len(s) \in Nat
        BY <1>1
      <4> QED BY <4>1
    <3>4. next[s[m]] = s[m + 1]
      BY <1>2, <3>1
    <3>2. CASE m + 1 = b
      <4>1. next[s[m]] = s[a] /\ a \in a .. b - 1
        BY <1>3, <3>2, <3>4
      <4> QED BY <4>1
    <3>3. CASE m + 1 # b
      <4>1. m + 1 \in a .. b - 1
        BY <3>3
      <4> QED BY <3>4, <4>1
    <3> QED BY <3>2, <3>3
  <2>3. \A o \in S : next[o] \in S
    BY <2>2
  <2> HIDE DEF S
  <2> QED BY <2>1, <2>3 DEF NoRing
<1> QED BY <1>1, <1>3

(* The links reach r and what is in the sequence, and nothing else. *)
LEMMA FromChain ==
  ASSUME LinksTyped, NEW r, NEW s, Follows(r, s)
  PROVE  From(r) = {r} \cup ToSet(s)
<1> DEFINE C == {r} \cup ToSet(s)
<1>0. Len(s) \in Nat
  BY ChainFacts DEF Follows
<1>1. /\ Len(s) \in Nat /\ s \in [1 .. Len(s) -> Callbacks] /\ DOMAIN s = 1 .. Len(s)
      /\ s = <<>> <=> Len(s) = 0
      /\ \A i \in 1 .. Len(s) : s[i] \in Callbacks /\ s[i] # NULL
  BY ChainFacts DEF Follows
<1>2. /\ \A i \in 1 .. Len(s) : i = Len(s) => next[s[i]] = NULL
      /\ \A i \in 1 .. Len(s) : i # Len(s) => i + 1 \in 1 .. Len(s) /\ next[s[i]] = s[i + 1]
  BY ChainFacts DEF Follows
<1>3. next[r] = IF s = <<>> THEN NULL ELSE s[1]
  BY ChainFacts DEF Follows
<1>4. From(r) \subseteq C
  <2>1. C \in SUBSET Nodes
    BY <1>1 DEF Follows, ToSet, Nodes
  <2>2. Closed(C)
    <3>1. s # <<>> => 1 \in 1 .. Len(s)
      BY <1>1
    <3>2. next[r] # NULL => next[r] \in ToSet(s)
      BY <1>1, <1>3, <3>1 DEF ToSet
    <3>3. \A i \in 1 .. Len(s) : next[s[i]] # NULL => next[s[i]] \in ToSet(s)
      BY <1>1, <1>2 DEF ToSet
    <3>4. \A o \in ToSet(s) : \E i \in 1 .. Len(s) : o = s[i]
      BY <1>1 DEF ToSet
    <3> QED BY <3>2, <3>3, <3>4, Zenon DEF Closed
  <2> HIDE DEF C
  <2>3. r \in C
    BY DEF C
  <2> QED BY <2>1, <2>2, <2>3 DEF From
<1>5. ASSUME NEW i \in 1 .. Len(s), s[i] \notin From(r) PROVE FALSE
  <2> DEFINE T == {n \in 1 .. Len(s) : s[n] \notin From(r)}
  <2>1. PICK k \in T : \A n \in T : k <= n
    <3>1. T \in SUBSET Nat /\ T # {}
      BY <1>1, <1>5
    <3> HIDE DEF T
    <3> QED BY <3>1, SmallestExists
  <2>2. k \in 1 .. Len(s) /\ s[k] \notin From(r) /\ s[k] \in Callbacks /\ s[k] # NULL
    BY <1>1, ChainConstantsOK DEF Nodes
  <2>3. Closed(From(r)) /\ r \in From(r)
    BY FromClosed, FromItself DEF Follows
  <2>4. CASE k = 1
    BY <1>1, <1>3, <2>2, <2>3, <2>4 DEF Closed
  <2>5. CASE k # 1
    <3>1. k - 1 \in 1 .. Len(s) /\ k - 1 \notin T
      BY <1>1, <2>1, <2>2, <2>5
    <3>2. s[k - 1] \in From(r) /\ next[s[k - 1]] = s[k]
      BY <1>1, <1>2, <2>2, <3>1
    <3> QED BY <2>2, <2>3, <3>2 DEF Closed
  <2> QED BY <2>4, <2>5
<1>6. C \subseteq From(r)
  BY <1>1, <1>5, FromItself DEF Follows, ToSet
<1> QED BY <1>4, <1>6

(* What is in the chain has a predecessor there, and nothing else has. *)
LEMMA Predecessor ==
  ASSUME LinksTyped, NEW r, NEW s, Follows(r, s), NEW c \in Callbacks
  PROVE  (\E p \in From(r) : next[p] = c) <=> c \in ToSet(s)
<1>0. Len(s) \in Nat
  BY ChainFacts DEF Follows
<1>1. DOMAIN s = 1 .. Len(s) /\ (s = <<>> <=> Len(s) = 0)
  BY ChainFacts DEF Follows
<1>6. /\ \A i \in 1 .. Len(s) : i = Len(s) => next[s[i]] = NULL
      /\ \A i \in 1 .. Len(s) : i # Len(s) => i + 1 \in 1 .. Len(s) /\ next[s[i]] = s[i + 1]
  BY ChainFacts DEF Follows
<1>7. next[r] = IF s = <<>> THEN NULL ELSE s[1]
  BY ChainFacts DEF Follows
<1>2. From(r) = {r} \cup ToSet(s) /\ c # NULL
  BY FromChain, ChainConstantsOK DEF Nodes
<1>3. ASSUME NEW k \in 1 .. Len(s), s[k] = c
      PROVE  \E p \in From(r) : next[p] = c
  <2>1. CASE k = 1
    <3>1. s # <<>>
      BY <1>0, <1>1
    <3> QED BY <1>2, <1>3, <1>7, <2>1, <3>1
  <2>2. CASE k # 1
    <3>1. k - 1 \in 1 .. Len(s) /\ k - 1 # Len(s) /\ (k - 1) + 1 = k
      BY <1>0, <2>2
    <3>2. next[s[k - 1]] = c
      BY <1>6, <1>3, <3>1
    <3> QED BY <1>1, <1>2, <3>1, <3>2 DEF ToSet
  <2> QED BY <2>1, <2>2
<1>4. ASSUME c \notin ToSet(s), NEW p \in From(r), next[p] = c
      PROVE  FALSE
  <2>1. s # <<>> => 1 \in 1 .. Len(s)
    BY <1>0, <1>1
  <2>2. \A i \in 1 .. Len(s) : s[i] # c
    BY <1>1, <1>4 DEF ToSet
  <2>3. next[r] # c
    BY <1>7, <1>2, <2>1, <2>2
  <2>4. \A i \in 1 .. Len(s) : next[s[i]] # c
    BY <1>6, <1>2, <2>2, Zenon
  <2>5. \A o \in ToSet(s) : \E i \in 1 .. Len(s) : o = s[i]
    BY <1>1 DEF ToSet
  <2> QED BY <1>2, <1>4, <2>3, <2>4, <2>5, Zenon
<1>5. c \in ToSet(s) => \E k \in 1 .. Len(s) : s[k] = c
  BY <1>1 DEF ToSet
<1> QED BY <1>3, <1>4, <1>5

(* register_cb through r appends what is not in the chain yet. *)
LEMMA LinkAppends ==
  ASSUME LinksTyped, NEW r, NEW s, Follows(r, s), NEW c \in Callbacks, c # r,
         Link(r, c)
  PROVE  Runs(next[r], With(s, c))'
<1>0. Len(s) \in Nat
  BY ChainFacts DEF Follows
<1>1. /\ Len(s) \in Nat /\ s \in [1 .. Len(s) -> Callbacks] /\ DOMAIN s = 1 .. Len(s)
      /\ s = <<>> <=> Len(s) = 0
      /\ \A i \in 1 .. Len(s) : s[i] \in Callbacks /\ s[i] # NULL
  BY ChainFacts DEF Follows
<1>2. /\ \A i \in 1 .. Len(s) : i = Len(s) => next[s[i]] = NULL
      /\ \A i \in 1 .. Len(s) : i # Len(s) => i + 1 \in 1 .. Len(s) /\ next[s[i]] = s[i + 1]
  BY ChainFacts DEF Follows
<1>3. next[r] = IF s = <<>> THEN NULL ELSE s[1]
  BY ChainFacts DEF Follows
<1>4. From(r) = {r} \cup ToSet(s) /\ c # NULL
  BY FromChain, ChainConstantsOK DEF Nodes
<1>5. CASE c \in ToSet(s)
  <2>2. \E p \in From(r) : next[p] = c
    BY <1>5, Predecessor
  <2>3. next' = next /\ With(s, c) = s
    BY <1>5, <2>2 DEF Link, With
  <2> QED BY <2>3 DEF Follows, Runs
<1>6. CASE c \notin ToSet(s)
  <2>1. \A p \in From(r) : next[p] # c
    BY <1>6, Predecessor
  <2>2. PICK p \in From(r) : next[p] = NULL /\ next' = [next EXCEPT ![p] = c, ![c] = NULL]
    BY <2>1 DEF Link
  <2>3. IF s = <<>> THEN p = r ELSE p = s[Len(s)]
    <3>1. CASE s = <<>>
      BY <1>1, <1>4, <3>1 DEF ToSet
    <3>2. CASE s # <<>>
      <4>1. p # r
        BY <1>1, <1>3, <2>2, <3>2, ChainConstantsOK DEF Nodes
      <4>2. PICK k \in 1 .. Len(s) : p = s[k]
        BY <1>1, <1>4, <4>1 DEF ToSet
      <4>3. k = Len(s)
        <5>1. SUFFICES ASSUME k # Len(s) PROVE FALSE
          OBVIOUS
        <5>2. s[k + 1] \in Callbacks /\ next[p] = s[k + 1]
          <6>1. k + 1 \in 1 .. Len(s) /\ next[s[k]] = s[k + 1]
            BY <1>2, <4>2, <5>1
          <6> QED BY <1>1, <4>2, <6>1
        <5> QED BY <2>2, <5>2, ChainConstantsOK DEF Nodes
      <4> QED BY <3>2, <4>2, <4>3
    <3> QED BY <3>1, <3>2
  <2>4. /\ p \in Nodes /\ c \in Nodes /\ r \in Nodes /\ p # c
        /\ \A i \in 1 .. Len(s) : s[i] \in Nodes /\ s[i] # c
    <3>1. \A i \in 1 .. Len(s) : s[i] \in Nodes /\ s[i] # c
      BY <1>1, <1>6 DEF ToSet, Nodes
    <3> QED BY <1>1, <2>3, <3>1 DEF Nodes, Follows
  <2>5. next'[p] = c /\ next'[c] = NULL /\ \A o \in Nodes \ {p, c} : next'[o] = next[o]
    BY <2>2, <2>4 DEF LinksTyped
  <2>6. /\ With(s, c) = Append(s, c) /\ Append(s, c) # <<>>
        /\ Len(Append(s, c)) = Len(s) + 1 /\ Append(s, c)[Len(s) + 1] = c
        /\ \A i \in 1 .. Len(s) : Append(s, c)[i] = s[i]
    BY <1>6, AppendProperties DEF With, Follows
  <2>7. next'[r] = Append(s, c)[1]
    <3>1. CASE s = <<>>
      BY <1>1, <2>3, <2>5, <2>6, <3>1
    <3>2. CASE s # <<>>
      <4>1. r # p
        BY <1>1, <1>3, <2>2, <3>2, ChainConstantsOK DEF Nodes
      <4> QED BY <1>1, <1>3, <2>4, <2>5, <2>6, <3>2, <4>1
    <3> QED BY <3>1, <3>2
  <2>8. ASSUME NEW i \in 1 .. Len(s) + 1
        PROVE  next'[Append(s, c)[i]] =
                 IF i = Len(s) + 1 THEN NULL ELSE Append(s, c)[i + 1]
    <3>1. CASE i = Len(s) + 1
      BY <2>5, <2>6, <3>1
    <3>2. CASE i = Len(s)
      <4>1. s # <<>> /\ i \in 1 .. Len(s) /\ p = s[i]
        BY <1>1, <2>3, <3>2
      <4> QED BY <1>1, <2>5, <2>6, <3>2, <4>1
    <3>3. CASE i < Len(s)
      <4>3. i \in 1 .. Len(s) /\ i + 1 \in 1 .. Len(s) /\ i # Len(s)
        BY <1>0, <3>3
      <4>1. i \in 1 .. Len(s) /\ i + 1 \in 1 .. Len(s) /\ i # Len(s) /\ s[i + 1] \in Callbacks
        BY <1>1, <4>3
      <4>2. next[s[i]] = s[i + 1] /\ s[i] # p
        BY <1>2, <2>2, <4>1, ChainConstantsOK DEF Nodes
      <4> QED BY <1>1, <2>4, <2>5, <2>6, <3>3, <4>1, <4>2
    <3> QED BY <1>0, <3>1, <3>2, <3>3
  <2> QED BY <1>0, <2>6, <2>7, <2>8 DEF Runs
<1> QED BY <1>5, <1>6

LEMMA RemoveAtFacts ==
  ASSUME NEW T, NEW s \in Seq(T), NEW k \in 1 .. Len(s)
  PROVE  LET t == RemoveAt(s, k)
         IN /\ t \in Seq(T) /\ Len(t) = Len(s) - 1
            /\ \A i \in 1 .. k - 1 : t[i] = s[i]
            /\ \A i \in k .. Len(s) - 1 : t[i] = s[i + 1]
<1>0. Len(s) \in Nat
  BY LenProperties
<1>1. DOMAIN s = 1 .. Len(s) /\ \A i \in 1 .. Len(s) : s[i] \in T
  BY LenProperties
<1> DEFINE a == SubSeq(s, 1, k - 1)
           b == SubSeq(s, k + 1, Len(s))
<1>4. \A i \in 1 .. k - 1 : i \in 1 .. Len(s)
  BY <1>0
<1>5. \A i \in k + 1 .. Len(s) : i \in 1 .. Len(s)
  BY <1>0
<1>6. a \in Seq(T) /\ Len(a) = k - 1 /\ \A i \in 1 .. k - 1 : a[i] = s[i]
  <2>1. 1 \in Int /\ k - 1 \in Int /\ \A i \in 1 .. k - 1 : s[i] \in T
    BY <1>0, <1>1, <1>4
  <2>2. /\ a \in Seq(T)
        /\ Len(a) = IF 1 <= k - 1 THEN (k - 1) - 1 + 1 ELSE 0
        /\ \A i \in 1 .. (k - 1) - 1 + 1 : a[i] = s[1 + i - 1]
    BY <2>1, SubSeqProperties
  <2> HIDE DEF a
  <2>3. k \in Nat /\ k >= 1
    BY <1>0
  <2>4. Len(a) = k - 1
    BY <2>2, <2>3
  <2>5. ASSUME NEW i \in 1 .. k - 1 PROVE a[i] = s[i]
    <3>1. i \in 1 .. (k - 1) - 1 + 1 /\ 1 + i - 1 = i
      BY <2>3
    <3> QED BY <2>2, <3>1
  <2> QED BY <2>2, <2>4, <2>5
<1>7. b \in Seq(T) /\ Len(b) = Len(s) - k /\ \A i \in 1 .. Len(s) - k : b[i] = s[k + i]
  <2>1. k + 1 \in Int /\ Len(s) \in Int /\ \A i \in k + 1 .. Len(s) : s[i] \in T
    BY <1>0, <1>1, <1>5
  <2>2. /\ b \in Seq(T)
        /\ Len(b) = IF k + 1 <= Len(s) THEN Len(s) - (k + 1) + 1 ELSE 0
        /\ \A i \in 1 .. Len(s) - (k + 1) + 1 : b[i] = s[(k + 1) + i - 1]
    BY <2>1, SubSeqProperties
  <2> HIDE DEF b
  <2>3. k \in Nat /\ k <= Len(s)
    BY <1>0
  <2>4. Len(b) = Len(s) - k
    BY <1>0, <2>2, <2>3
  <2>5. ASSUME NEW i \in 1 .. Len(s) - k PROVE b[i] = s[k + i]
    <3>1. i \in 1 .. Len(s) - (k + 1) + 1 /\ (k + 1) + i - 1 = k + i
      BY <1>0, <2>3
    <3> QED BY <2>2, <3>1
  <2> QED BY <2>2, <2>4, <2>5
<1> DEFINE t == RemoveAt(s, k)
<1>8. t = a \o b
  BY DEF RemoveAt
<1> HIDE DEF a, b, t
<1>9. /\ t \in Seq(T) /\ Len(t) = Len(a) + Len(b)
      /\ \A i \in 1 .. Len(a) + Len(b) : t[i] = IF i <= Len(a) THEN a[i] ELSE b[i - Len(a)]
  BY <1>6, <1>7, <1>8, ConcatProperties
<1>10. k \in Nat /\ 1 <= k /\ k <= Len(s) /\ Len(t) = Len(s) - 1
  BY <1>0, <1>6, <1>7, <1>9
<1>11. ASSUME NEW i \in 1 .. k - 1 PROVE t[i] = s[i]
  <2>1. i \in 1 .. Len(a) + Len(b) /\ i <= Len(a)
    BY <1>0, <1>6, <1>7, <1>10
  <2> QED BY <1>6, <1>9, <2>1
<1>12. ASSUME NEW i \in k .. Len(s) - 1 PROVE t[i] = s[i + 1]
  <2>1. i \in 1 .. Len(a) + Len(b) /\ ~ (i <= Len(a))
    BY <1>0, <1>6, <1>7, <1>10
  <2>2. i - Len(a) \in 1 .. Len(s) - k /\ k + (i - Len(a)) = i + 1
    BY <1>0, <1>6, <1>10
  <2>3. t[i] = b[i - Len(a)]
    BY <1>9, <2>1
  <2> QED BY <1>7, <2>2, <2>3
<1>13. RemoveAt(s, k) = t
  BY DEF t
<1> QED BY <1>9, <1>10, <1>11, <1>12, <1>13, Zenon

LEMMA WithoutAt ==
  ASSUME NEW T, NEW s \in Seq(T), NEW k \in 1 .. Len(s),
         \A i \in 1 .. Len(s) : s[i] = s[k] => i = k
  PROVE  LET t == Without(s, s[k])
         IN /\ t \in Seq(T) /\ Len(t) = Len(s) - 1
            /\ \A i \in 1 .. k - 1 : t[i] = s[i]
            /\ \A i \in k .. Len(s) - 1 : t[i] = s[i + 1]
<1>1. DOMAIN s = 1 .. Len(s)
  BY LenProperties
<1>2. (CHOOSE i \in 1 .. Len(s) : s[i] = s[k]) = k
  OBVIOUS
<1>3. Without(s, s[k]) = RemoveAt(s, k)
  BY <1>1, <1>2, Zenon DEF Without, ToSet
<1> QED BY <1>3, RemoveAtFacts, Zenon

LEMMA WithoutTyped ==
  ASSUME NEW T, NEW s \in Seq(T), NEW c
  PROVE  Without(s, c) \in Seq(T)
<1>1. CASE c \in ToSet(s)
  <2>1. \E i \in 1 .. Len(s) : s[i] = c
    BY <1>1, LenProperties DEF ToSet
  <2>2. PICK k \in 1 .. Len(s) : k = CHOOSE i \in 1 .. Len(s) : s[i] = c
    BY <2>1
  <2>3. Without(s, c) = RemoveAt(s, k)
    BY <1>1, <2>2 DEF Without
  <2> QED BY <2>3, RemoveAtFacts
<1>2. CASE c \notin ToSet(s)
  BY <1>2 DEF Without
<1> QED BY <1>1, <1>2

LEMMA WithoutAbsent ==
  ASSUME NEW s, NEW c, c \notin ToSet(s)
  PROVE  Without(s, c) = s
  BY DEF Without

(* unregister_cb through r removes c from the chain if it is there. *)
LEMMA UnlinkRemoves ==
  ASSUME LinksTyped, NoRing, NEW r, NEW s, Follows(r, s), NEW c \in Callbacks, c # r,
         Unlink(r, c)
  PROVE  Runs(next[r], Without(s, c))'
<1>0. Len(s) \in Nat /\ s \in Seq(Callbacks)
  BY ChainFacts DEF Follows
<1>1. /\ DOMAIN s = 1 .. Len(s) /\ (s = <<>> <=> Len(s) = 0)
      /\ \A i \in 1 .. Len(s) : s[i] \in Callbacks /\ s[i] # NULL
  BY ChainFacts DEF Follows
<1>2. /\ \A i \in 1 .. Len(s) : i = Len(s) => next[s[i]] = NULL
      /\ \A i \in 1 .. Len(s) : i # Len(s) => i + 1 \in 1 .. Len(s) /\ next[s[i]] = s[i + 1]
  BY ChainFacts DEF Follows
<1>3. next[r] = IF s = <<>> THEN NULL ELSE s[1]
  BY ChainFacts DEF Follows
<1>4. From(r) = {r} \cup ToSet(s) /\ c # NULL
  BY FromChain, ChainConstantsOK DEF Nodes
<1>5. CASE c \notin ToSet(s)
  <2>1. \A p \in From(r) : next[p] # c
    BY <1>5, Predecessor
  <2>2. next' = next /\ Without(s, c) = s
    BY <1>5, <2>1, WithoutAbsent DEF Unlink
  <2> QED BY <2>2 DEF Follows, Runs
<1>6. CASE c \in ToSet(s)
  <2>1. PICK k \in 1 .. Len(s) : c = s[k]
    BY <1>1, <1>6 DEF ToSet
  <2>2. k \in Nat /\ 1 <= k /\ k <= Len(s)
    BY <1>0
  <2>3. \A i \in 1 .. Len(s) : s[i] = s[k] => i = k
    BY NothingTwice DEF Follows
  <2>4. \E p \in From(r) : next[p] = c
    BY <1>6, Predecessor
  <2>5. PICK p \in From(r) : next[p] = c /\ next' = [next EXCEPT ![p] = next[c]]
    BY <2>4 DEF Unlink
  <2>6. IF k = 1 THEN p = r ELSE k - 1 \in 1 .. Len(s) /\ p = s[k - 1]
    <3>1. CASE p = r
      <4>1. s # <<>> /\ s[1] = c /\ 1 \in 1 .. Len(s)
        BY <1>0, <1>1, <1>3, <1>4, <2>2, <2>5, <3>1
      <4> QED BY <2>1, <2>3, <3>1, <4>1
    <3>2. CASE p # r
      <4>1. PICK j \in 1 .. Len(s) : p = s[j]
        BY <1>1, <1>4, <3>2 DEF ToSet
      <4>2. j # Len(s) /\ j + 1 \in 1 .. Len(s) /\ s[j + 1] = c
        BY <1>2, <1>4, <2>5, <4>1
      <4>3. j + 1 = k
        BY <2>1, <2>3, <4>2
      <4>4. j = k - 1 /\ k # 1
        BY <1>0, <4>3
      <4> QED BY <4>1, <4>4
    <3> QED BY <3>1, <3>2
  <2>7. /\ p \in Nodes /\ r \in Nodes
        /\ \A i \in 1 .. Len(s) : s[i] \in Nodes
    BY <1>1, <1>4 DEF Nodes, From, Follows
  <2>8. next'[p] = next[c] /\ \A o \in Nodes \ {p} : next'[o] = next[o]
    BY <2>5, <2>7 DEF LinksTyped
  <2>9. \A i \in 1 .. Len(s) : i # k - 1 => s[i] # p
    <3>1. ASSUME NEW i \in 1 .. Len(s), s[i] = p PROVE i = k - 1
      <4>1. next[s[i]] = c
        BY <2>5, <3>1
      <4>2. i # Len(s) /\ i + 1 \in 1 .. Len(s) /\ s[i + 1] = c
        BY <1>2, <1>4, <4>1
      <4>3. i + 1 = k
        BY <2>1, <2>3, <4>2
      <4> QED BY <1>0, <4>3
    <3> QED BY <3>1
  <2> DEFINE t == Without(s, c)
  <2>10. /\ t \in Seq(Callbacks) /\ Len(t) = Len(s) - 1
         /\ \A i \in 1 .. k - 1 : t[i] = s[i]
         /\ \A i \in k .. Len(s) - 1 : t[i] = s[i + 1]
    BY <1>0, <2>1, <2>3, WithoutAt
  <2> HIDE DEF t
  <2>11. t = <<>> <=> Len(s) = 1
    BY <1>0, <2>10, EmptySeq
  <2>12. next'[r] = IF t = <<>> THEN NULL ELSE t[1]
    <3>1. CASE k = 1
      <4>1. next'[r] = next[s[1]]
        BY <2>1, <2>6, <2>8, <3>1
      <4>2. CASE Len(s) = 1
        BY <1>2, <2>1, <2>11, <3>1, <4>1, <4>2
      <4>3. CASE Len(s) # 1
        <5>1. 1 \in 1 .. Len(s) /\ 1 \in k .. Len(s) - 1
          <6>1. Len(s) \in Nat
            BY <1>0
          <6> QED BY <2>2, <3>1, <4>3, <6>1
        <5>2. t[1] = s[1 + 1]
          BY <2>10, <5>1
        <5>3. next[s[1]] = s[1 + 1]
          BY <1>2, <4>3, <5>1
        <5> QED BY <2>11, <4>1, <4>3, <5>2, <5>3
      <4> QED BY <4>2, <4>3
    <3>2. CASE k # 1
      <4>1. 1 \in 1 .. k - 1 /\ Len(s) # 1 /\ s # <<>>
        BY <1>0, <1>1, <2>2, <3>2
      <4>2. p # r
        <5>1. k - 1 \in 1 .. Len(s) /\ p = s[k - 1]
          BY <2>6, <3>2
        <5>2. next[r] # c
          <6>1. 1 \in 1 .. Len(s) /\ 1 # k
            BY <1>0, <2>2, <3>2
          <6> QED BY <1>3, <2>1, <2>3, <4>1, <6>1
        <5> QED BY <2>5, <5>2
      <4> QED BY <1>3, <2>7, <2>8, <2>10, <2>11, <4>1, <4>2
    <3> QED BY <3>1, <3>2
  <2>13. ASSUME NEW i \in 1 .. Len(t)
         PROVE  next'[t[i]] = IF i = Len(t) THEN NULL ELSE t[i + 1]
    <3>0. i \in Nat /\ 1 <= i /\ i <= Len(s) - 1 /\ Len(t) = Len(s) - 1
      BY <1>0, <2>10
    <3>1. CASE i < k - 1
      <4>1. /\ i \in 1 .. k - 1 /\ i + 1 \in 1 .. k - 1 /\ i \in 1 .. Len(s)
            /\ i # Len(s) /\ i # k - 1 /\ i # Len(t)
        BY <1>0, <2>2, <3>0, <3>1
      <4>2. t[i] = s[i] /\ t[i + 1] = s[i + 1]
        BY <2>10, <4>1
      <4>3. next'[s[i]] = s[i + 1]
        BY <1>2, <2>7, <2>8, <2>9, <4>1
      <4> QED BY <4>1, <4>2, <4>3
    <3>2. CASE i = k - 1
      <4>1. i \in 1 .. k - 1 /\ i \in 1 .. Len(s) /\ k # 1
        BY <1>0, <2>2, <3>0, <3>2
      <4>2. t[i] = p
        BY <2>6, <2>10, <3>2, <4>1
      <4>3. next'[t[i]] = next[s[k]]
        BY <2>1, <2>8, <4>2
      <4>4. CASE k = Len(s)
        <5>1. i = Len(t)
          BY <1>0, <3>0, <3>2, <4>4
        <5> QED BY <1>2, <4>3, <4>4, <5>1
      <4>5. CASE k # Len(s)
        <5>1. i # Len(t) /\ i + 1 \in k .. Len(s) - 1 /\ (i + 1) + 1 = k + 1
          BY <1>0, <2>2, <3>0, <3>2, <4>5
        <5>2. t[i + 1] = s[k + 1]
          BY <2>10, <5>1
        <5> QED BY <1>2, <4>3, <4>5, <5>1, <5>2
      <4> QED BY <4>4, <4>5
    <3>3. CASE i >= k
      <4>1. /\ i \in k .. Len(s) - 1 /\ i + 1 \in 1 .. Len(s) /\ i + 1 # k - 1
            /\ (i = Len(t) <=> i + 1 = Len(s))
        BY <1>0, <2>2, <3>0, <3>3
      <4>2. t[i] = s[i + 1] /\ next'[s[i + 1]] = next[s[i + 1]]
        BY <2>7, <2>8, <2>9, <2>10, <4>1
      <4>3. CASE i = Len(t)
        BY <1>2, <4>1, <4>2, <4>3
      <4>4. CASE i # Len(t)
        <5>1. i + 1 # Len(s) /\ i + 1 \in k .. Len(s) - 1
          BY <1>0, <3>0, <3>3, <4>1, <4>4
        <5>2. t[i + 1] = s[(i + 1) + 1]
          BY <2>10, <5>1
        <5> QED BY <1>2, <4>1, <4>2, <4>4, <5>1, <5>2
      <4> QED BY <4>3, <4>4
    <3> QED BY <2>2, <3>0, <3>1, <3>2, <3>3
  <2>14. Without(s, c) = t
    BY DEF t
  <2> QED BY <2>12, <2>13, <2>14, Zenon DEF Runs
<1> QED BY <1>5, <1>6

-----------------------------------------------------------------------------
(* What one chain does leaves the other alone. *)

LEMMA OtherChainKept ==
  ASSUME LinksTyped, NEW root \in Nodes, NEW c, Link(root, c) \/ Unlink(root, c),
         NEW A, From(root) \subseteq A, c \in A,
         NEW first, NEW s \in Seq(Nodes \ A), Runs(first, s)
  PROVE  Runs(first, s)'
<1>1. \A o \in Nodes \ A : next'[o] = next[o]
  BY DEF Link, Unlink, LinksTyped
<1>2. \A i \in 1 .. Len(s) : s[i] \in Nodes \ A
  BY LenProperties
<1> QED BY <1>1, <1>2, Zenon DEF Runs

(* The chains, and the sequences that they hold. *)
Chains ==
  /\ LinksTyped /\ NoRing
  /\ registered \in Seq(OfRoot) /\ on_can \in Seq(OfCAN)
  /\ ChainsInOrder

LEMMA RootFollows == Chains => Follows(Root, registered)
<1>1. registered \in Seq(OfRoot) => registered \in Seq(Callbacks)
  BY SeqMonotonic DEF Callbacks
<1> QED BY <1>1 DEF Chains, ChainsInOrder, Follows, Nodes

(* The CAN interface's first callback has the others behind it. *)
LEMMA CANFollows ==
  ASSUME Chains, on_can # <<>>
  PROVE  /\ rx_cbs \in OfCAN /\ rx_cbs = on_can[1]
         /\ Follows(rx_cbs, Tail(on_can))
         /\ Len(Tail(on_can)) = Len(on_can) - 1
         /\ \A i \in 1 .. Len(on_can) - 1 : Tail(on_can)[i] = on_can[i + 1]
         /\ 1 \in 1 .. Len(on_can)
<1> DEFINE s == on_can
           t == Tail(on_can)
<1>1. s \in Seq(OfCAN) /\ s # <<>> /\ Runs(rx_cbs, s)
  BY DEF Chains, ChainsInOrder
<1>2. Len(s) \in Nat /\ Len(s) # 0 /\ \A i \in 1 .. Len(s) : s[i] \in OfCAN
  BY <1>1, LenProperties, EmptySeq
<1>3. 1 \in 1 .. Len(s)
  BY <1>2
<1>4. /\ t \in Seq(OfCAN) /\ Len(t) = Len(s) - 1
      /\ \A i \in 1 .. Len(t) : t[i] = s[i + 1]
  BY <1>1, HeadTailProperties
<1>5. rx_cbs = s[1] /\ \A i \in 1 .. Len(s) : next[s[i]] = IF i = Len(s) THEN NULL ELSE s[i + 1]
  BY <1>1 DEF Runs
<1>6. t \in Seq(Callbacks) /\ rx_cbs \in Nodes
  BY <1>2, <1>3, <1>4, <1>5, SeqMonotonic DEF Callbacks, Nodes
<1> HIDE DEF s, t
<1>7. t = <<>> <=> Len(s) = 1
  BY <1>2, <1>4, EmptySeq
<1>8. next[rx_cbs] = IF t = <<>> THEN NULL ELSE t[1]
  <2>1. CASE Len(s) = 1
    BY <1>3, <1>5, <1>7, <2>1
  <2>2. CASE Len(s) # 1
    <3>1. 1 \in 1 .. Len(t)
      BY <1>2, <1>4, <2>2
    <3>2. t[1] = s[1 + 1]
      BY <1>4, <3>1
    <3>3. next[s[1]] = s[1 + 1]
      BY <1>3, <1>5, <2>2
    <3> QED BY <1>5, <1>7, <2>2, <3>2, <3>3
  <2> QED BY <2>1, <2>2
<1>9. ASSUME NEW i \in 1 .. Len(t)
      PROVE  next[t[i]] = IF i = Len(t) THEN NULL ELSE t[i + 1]
  <2>1. i + 1 \in 1 .. Len(s) /\ t[i] = s[i + 1] /\ (i = Len(t) <=> i + 1 = Len(s))
    BY <1>2, <1>4
  <2>2. CASE i = Len(t)
    BY <1>5, <2>1, <2>2
  <2>3. CASE i # Len(t)
    <3>1. i + 1 \in 1 .. Len(t)
      BY <1>2, <1>4, <2>3
    <3>2. t[i + 1] = s[(i + 1) + 1]
      BY <1>4, <3>1
    <3> QED BY <1>5, <2>1, <2>3, <3>2
  <2> QED BY <2>2, <2>3
<1>10. Follows(rx_cbs, t)
  BY <1>6, <1>8, <1>9, Zenon DEF Follows, Runs
<1>11. rx_cbs \in OfCAN
  BY <1>2, <1>3, <1>5
<1> QED BY <1>3, <1>4, <1>5, <1>10, <1>11, Zenon DEF s, t

(* r before a chain that follows it. *)
LEMMA PutInFront ==
  ASSUME NEW r, NEW u, NEW t, Runs(next[r], t)', u # <<>>, u[1] = r,
         Len(t) \in Nat, t = <<>> <=> Len(t) = 0,
         Len(u) = Len(t) + 1, \A i \in 1 .. Len(t) : t[i] = u[i + 1]
  PROVE  Runs(r, u)'
<1>0. /\ u # <<>> /\ u[1] = r /\ Len(t) \in Nat /\ (t = <<>> <=> Len(t) = 0)
      /\ Len(u) = Len(t) + 1 /\ \A i \in 1 .. Len(t) : t[i] = u[i + 1]
  OBVIOUS
<1>1. next'[u[1]] = IF t = <<>> THEN NULL ELSE t[1]
  BY DEF Runs
<1>2. t # <<>> => \A i \in 1 .. Len(t) : next'[t[i]] = IF i = Len(t) THEN NULL ELSE t[i + 1]
  BY Zenon DEF Runs
<1> SUFFICES ASSUME NEW i \in 1 .. Len(u)
             PROVE  next'[u[i]] = IF i = Len(u) THEN NULL ELSE u[i + 1]
  BY <1>0, Zenon DEF Runs
<1>3. CASE i = 1
  <2>1. CASE Len(t) = 0
    BY <1>0, <1>1, <1>3, <2>1
  <2>2. CASE Len(t) # 0
    <3>1. 1 \in 1 .. Len(t) /\ i # Len(u)
      BY <1>0, <1>3, <2>2
    <3>2. t[1] = u[i + 1]
      BY <1>0, <1>3, <3>1
    <3> QED BY <1>0, <1>1, <1>3, <2>2, <3>1, <3>2
  <2> QED BY <2>1, <2>2
<1>4. CASE i # 1
  <2>1. i - 1 \in 1 .. Len(t) /\ (i - 1) + 1 = i /\ t # <<>> /\ (i - 1 = Len(t) <=> i = Len(u))
    BY <1>0, <1>4
  <2>2. t[i - 1] = u[i]
    BY <1>0, <2>1
  <2>3. next'[u[i]] = IF i - 1 = Len(t) THEN NULL ELSE t[i]
    BY <1>2, <2>1, <2>2
  <2>4. CASE i = Len(u)
    BY <2>1, <2>3, <2>4
  <2>5. CASE i # Len(u)
    <3>1. i \in 1 .. Len(t)
      BY <1>0, <2>5
    <3>2. t[i] = u[i + 1]
      BY <1>0, <3>1
    <3> QED BY <2>1, <2>3, <2>5, <3>2
  <2> QED BY <2>4, <2>5
<1> QED BY <1>3, <1>4

LEMMA FrontFacts ==
  ASSUME NEW T, NEW s \in Seq(T), s # <<>>
  PROVE  /\ 1 \in 1 .. Len(s) /\ Tail(s) \in Seq(T) /\ Len(Tail(s)) = Len(s) - 1
         /\ \A i \in 1 .. Len(s) - 1 : Tail(s)[i] = s[i + 1]
         /\ ToSet(s) = {s[1]} \cup ToSet(Tail(s))
<1>1. Len(s) \in Nat /\ Len(s) # 0
  BY LenProperties, EmptySeq
<1>2. DOMAIN s = 1 .. Len(s) /\ 1 \in 1 .. Len(s)
  BY <1>1, LenProperties
<1>3. /\ Tail(s) \in Seq(T) /\ Len(Tail(s)) = Len(s) - 1
      /\ \A i \in 1 .. Len(s) - 1 : Tail(s)[i] = s[i + 1]
  BY HeadTailProperties
<1>4. DOMAIN Tail(s) = 1 .. Len(s) - 1
  BY <1>3, LenProperties
<1>5. ASSUME NEW i \in 1 .. Len(s), i # 1 PROVE s[i] \in ToSet(Tail(s))
  <2>1. i - 1 \in 1 .. Len(s) - 1 /\ (i - 1) + 1 = i
    BY <1>1, <1>5
  <2>2. Tail(s)[i - 1] = s[i]
    BY <1>3, <2>1
  <2> QED BY <1>4, <2>1, <2>2 DEF ToSet
<1>6. ASSUME NEW i \in 1 .. Len(s) - 1 PROVE Tail(s)[i] \in ToSet(s)
  <2>1. i + 1 \in 1 .. Len(s)
    BY <1>1
  <2> QED BY <1>2, <1>3, <2>1 DEF ToSet
<1>7. \A x \in ToSet(s) : x = s[1] \/ x \in ToSet(Tail(s))
  BY <1>2, <1>5 DEF ToSet
<1>8. \A x \in ToSet(Tail(s)) : x \in ToSet(s)
  BY <1>4, <1>6 DEF ToSet
<1>9. s[1] \in ToSet(s)
  BY <1>2 DEF ToSet
<1>10. ToSet(s) = {s[1]} \cup ToSet(Tail(s))
  BY <1>7, <1>8, <1>9
<1> QED BY <1>2, <1>3, <1>10

(* register_cb of a CAN interface that has callbacks. *)
LEMMA FrontLink ==
  ASSUME LinksTyped, NEW s \in Seq(OfCAN), s # <<>>, Follows(s[1], Tail(s)),
         NEW c \in OfCAN, c # s[1], Link(s[1], c)
  PROVE  With(s, c) \in Seq(OfCAN) /\ Runs(s[1], With(s, c))'
<1> DEFINE t == Tail(s)
           u == With(s, c)
           v == With(t, c)
<1>1. /\ 1 \in 1 .. Len(s) /\ t \in Seq(OfCAN) /\ Len(t) = Len(s) - 1
      /\ \A i \in 1 .. Len(s) - 1 : t[i] = s[i + 1]
      /\ ToSet(s) = {s[1]} \cup ToSet(t)
  BY FrontFacts
<1>2. Len(s) \in Nat /\ Len(t) \in Nat
  BY <1>1, LenProperties
<1>3. Runs(next[s[1]], v)'
  <2>1. c \in Callbacks
    BY DEF Callbacks
  <2> QED BY <2>1, LinkAppends
<1> HIDE DEF t
<1>4. /\ u \in Seq(OfCAN) /\ v \in Seq(OfCAN) /\ Len(u) = Len(v) + 1
      /\ u # <<>> /\ u[1] = s[1] /\ \A i \in 1 .. Len(v) : v[i] = u[i + 1]
  <2>1. CASE c \in ToSet(s)
    <3>1. u = s /\ v = t
      BY <1>1, <2>1 DEF With
    <3>2. Len(s) = Len(t) + 1
      BY <1>1, <1>2
    <3> QED BY <1>1, <3>1, <3>2
  <2>2. CASE c \notin ToSet(s)
    <3>1. u = Append(s, c) /\ v = Append(t, c)
      BY <1>1, <2>2 DEF With
    <3>2. /\ u \in Seq(OfCAN) /\ u # <<>> /\ Len(u) = Len(s) + 1
          /\ \A i \in 1 .. Len(s) : u[i] = s[i]
          /\ u[Len(s) + 1] = c
      BY <3>1, AppendProperties
    <3>3. /\ v \in Seq(OfCAN) /\ Len(v) = Len(t) + 1
          /\ \A i \in 1 .. Len(t) : v[i] = t[i]
          /\ v[Len(t) + 1] = c
      BY <1>1, <3>1, AppendProperties
    <3> HIDE DEF u, v
    <3>4. ASSUME NEW i \in 1 .. Len(v) PROVE v[i] = u[i + 1]
      <4>1. CASE i = Len(v)
        <5>1. i = Len(t) + 1 /\ i + 1 = Len(s) + 1
          BY <1>1, <1>2, <3>3, <4>1
        <5> QED BY <3>2, <3>3, <5>1
      <4>2. CASE i # Len(v)
        <5>1. i \in 1 .. Len(t) /\ i \in 1 .. Len(s) - 1 /\ i + 1 \in 1 .. Len(s)
          <6>1. Len(v) = Len(t) + 1 /\ Len(t) = Len(s) - 1
            BY <1>1, <3>3
          <6> QED BY <1>2, <4>2, <6>1
        <5> QED BY <1>1, <3>2, <3>3, <5>1
      <4> QED BY <4>1, <4>2
    <3>5. Len(u) = Len(v) + 1
      BY <1>1, <1>2, <3>2, <3>3
    <3> QED BY <1>1, <3>2, <3>3, <3>4, <3>5
  <2> QED BY <2>1, <2>2
<1> HIDE DEF u, v
<1>5. Len(v) \in Nat /\ (v = <<>> <=> Len(v) = 0)
  BY <1>4, LenProperties, EmptySeq
<1>6. Runs(s[1], u)'
  BY <1>3, <1>4, <1>5, PutInFront
<1> QED BY <1>4, <1>6 DEF u

(* unregister_cb of the first callback of a CAN interface. *)
LEMMA FrontWithout ==
  ASSUME LinksTyped, NoRing, NEW s \in Seq(OfCAN), s # <<>>, Runs(s[1], s)
  PROVE  Without(s, s[1]) = Tail(s)
<1>1. /\ 1 \in 1 .. Len(s) /\ Tail(s) \in Seq(OfCAN) /\ Len(Tail(s)) = Len(s) - 1
      /\ \A i \in 1 .. Len(s) - 1 : Tail(s)[i] = s[i + 1]
  BY FrontFacts
<1>2. s \in Seq(Callbacks)
  BY SeqMonotonic DEF Callbacks
<1>3. \A i \in 1 .. Len(s) : s[i] = s[1] => i = 1
  BY <1>1, <1>2, NothingTwice
<1>4. /\ Without(s, s[1]) \in Seq(OfCAN) /\ Len(Without(s, s[1])) = Len(s) - 1
      /\ \A i \in 1 .. Len(s) - 1 : Without(s, s[1])[i] = s[i + 1]
  BY <1>1, <1>3, WithoutAt
<1> QED BY <1>1, <1>4, SeqEqual

(* unregister_cb of another one. *)
LEMMA FrontUnlink ==
  ASSUME LinksTyped, NoRing, NEW s \in Seq(OfCAN), s # <<>>, Runs(s[1], s),
         Follows(s[1], Tail(s)), NEW c \in OfCAN, c # s[1], Unlink(s[1], c)
  PROVE  Runs(s[1], Without(s, c))'
<1> DEFINE t == Tail(s)
           u == Without(s, c)
           v == Without(t, c)
<1>1. /\ 1 \in 1 .. Len(s) /\ t \in Seq(OfCAN) /\ Len(t) = Len(s) - 1
      /\ \A i \in 1 .. Len(s) - 1 : t[i] = s[i + 1]
      /\ ToSet(s) = {s[1]} \cup ToSet(t)
  BY FrontFacts
<1>2. Len(s) \in Nat /\ Len(t) \in Nat /\ DOMAIN s = 1 .. Len(s)
  BY <1>1, LenProperties
<1>3. Runs(next[s[1]], v)'
  <2>1. c \in Callbacks
    BY DEF Callbacks
  <2> QED BY <2>1, UnlinkRemoves
<1>4. s \in Seq(Callbacks) /\ t \in Seq(Callbacks) /\ Runs(next[s[1]], t)
  BY <1>1, SeqMonotonic DEF Callbacks, Follows
<1>5. v \in Seq(OfCAN)
  BY <1>1, WithoutTyped
<1> HIDE DEF t
<1>6. Len(u) = Len(v) + 1 /\ u # <<>> /\ u[1] = s[1] /\ \A i \in 1 .. Len(v) : v[i] = u[i + 1]
  <2>1. CASE c \notin ToSet(s)
    <3>1. u = s /\ v = t
      BY <1>1, <2>1, WithoutAbsent
    <3>2. Len(s) = Len(t) + 1
      BY <1>1, <1>2
    <3> QED BY <1>1, <3>1, <3>2
  <2>2. CASE c \in ToSet(s)
    <3>1. PICK k \in 1 .. Len(s) : c = s[k]
      BY <1>2, <2>2 DEF ToSet
    <3>2. k # 1 /\ k \in Nat /\ k >= 1 /\ k <= Len(s)
      BY <1>2, <3>1
    <3>3. k - 1 \in 1 .. Len(t) /\ k - 1 \in 1 .. Len(s) - 1 /\ (k - 1) + 1 = k
      BY <1>1, <1>2, <3>2
    <3>4. c = t[k - 1]
      BY <1>1, <3>1, <3>3
    <3>5. \A i \in 1 .. Len(s) : s[i] = s[k] => i = k
      BY <1>4, NothingTwice
    <3>6. \A i \in 1 .. Len(t) : t[i] = t[k - 1] => i = k - 1
      BY <1>4, <3>3, NothingTwice
    <3>7. /\ u \in Seq(OfCAN) /\ Len(u) = Len(s) - 1
          /\ \A i \in 1 .. k - 1 : u[i] = s[i]
          /\ \A i \in k .. Len(s) - 1 : u[i] = s[i + 1]
      BY <3>1, <3>5, WithoutAt
    <3>8. /\ Len(v) = Len(t) - 1
          /\ \A i \in 1 .. k - 2 : v[i] = t[i]
          /\ \A i \in k - 1 .. Len(t) - 1 : v[i] = t[i + 1]
      <4>1. PICK j \in 1 .. Len(t) : j = k - 1
        BY <3>3
      <4>2. /\ Len(v) = Len(t) - 1
            /\ \A i \in 1 .. j - 1 : v[i] = t[i]
            /\ \A i \in j .. Len(t) - 1 : v[i] = t[i + 1]
        BY <1>1, <3>4, <3>6, <4>1, WithoutAt
      <4>3. j - 1 = k - 2
        BY <3>2, <4>1
      <4> QED BY <4>1, <4>2, <4>3
    <3> HIDE DEF u, v
    <3>9. Len(u) = Len(v) + 1 /\ Len(u) # 0
      BY <1>1, <1>2, <3>2, <3>7, <3>8
    <3>10. u[1] = s[1]
      <4>1. 1 \in 1 .. k - 1
        BY <3>2
      <4> QED BY <3>7, <4>1
    <3>11. ASSUME NEW i \in 1 .. Len(v) PROVE v[i] = u[i + 1]
      <4>0. i \in Nat /\ 1 <= i /\ i <= Len(s) - 2
        BY <1>1, <1>2, <3>8
      <4>1. CASE i <= k - 2
        <5>1. i \in 1 .. k - 2 /\ i + 1 \in 1 .. k - 1 /\ i \in 1 .. Len(s) - 1
          BY <1>2, <3>2, <4>0, <4>1
        <5> QED BY <1>1, <3>7, <3>8, <5>1
      <4>2. CASE i > k - 2
        <5>1. i \in k - 1 .. Len(t) - 1 /\ i + 1 \in k .. Len(s) - 1 /\ i + 1 \in 1 .. Len(s) - 1
          BY <1>1, <1>2, <3>2, <4>0, <4>2
        <5>2. v[i] = t[i + 1]
          BY <3>8, <5>1
        <5>3. t[i + 1] = s[(i + 1) + 1]
          BY <1>1, <5>1
        <5>4. u[i + 1] = s[(i + 1) + 1]
          BY <3>7, <5>1
        <5> QED BY <5>2, <5>3, <5>4
      <4> QED BY <3>2, <4>0, <4>1, <4>2
    <3> QED BY <3>7, <3>9, <3>10, <3>11, EmptySeq
  <2> QED BY <2>1, <2>2
<1> HIDE DEF u, v
<1>7. Len(v) \in Nat /\ (v = <<>> <=> Len(v) = 0)
  BY <1>5, LenProperties, EmptySeq
<1>8. Runs(s[1], u)'
  BY <1>3, <1>6, <1>7, PutInFront
<1> QED BY <1>8 DEF u

(* Whatever a step does with the CAN interface's chain, that stays in order. *)
LEMMA CANStep ==
  ASSUME Chains, NEW c \in OfCAN, CanRegister(c) \/ CanUnregister(c),
         LinksTyped', NoRing'
  PROVE  Chains'
<1> USE DEF Nodes, Callbacks
<1> DEFINE s == on_can
<1>0. s \in Seq(OfCAN) /\ s \in Seq(Callbacks) /\ Runs(rx_cbs, s)
  BY SeqMonotonic DEF Chains, ChainsInOrder
<1>1. /\ Len(s) \in Nat /\ DOMAIN s = 1 .. Len(s) /\ (s = <<>> <=> Len(s) = 0)
      /\ \A i \in 1 .. Len(s) : s[i] \in OfCAN
  BY <1>0, LenProperties, EmptySeq
<1>2. rx_cbs = NULL <=> s = <<>>
  <2>1. s # <<>> => rx_cbs \in OfCAN
    BY CANFollows
  <2> QED BY <1>0, <2>1, ChainConstantsOK DEF Runs
<1>4. UNCHANGED registered
  BY DEF CanRegister, CanUnregister
<1>5. ASSUME UNCHANGED next PROVE Runs(next[Root], registered)'
  BY <1>4, <1>5 DEF Chains, ChainsInOrder, Runs
<1>6. ASSUME NEW root \in OfCAN, Link(root, c) \/ Unlink(root, c)
      PROVE  Runs(next[Root], registered)'
  <2>1. From(root) \subseteq OfCAN /\ c \in OfCAN /\ root \in Nodes
    BY FromCAN DEF Chains
  <2>2. registered \in Seq(Nodes \ OfCAN)
    <3>1. OfRoot \subseteq Nodes \ OfCAN
      BY ChainConstantsOK
    <3> QED BY <3>1, SeqMonotonic DEF Chains
  <2>3. next'[Root] = next[Root]
    BY <1>6, <2>1, ChainConstantsOK DEF Link, Unlink, Chains, LinksTyped
  <2>4. Runs(next[Root], registered) /\ LinksTyped
    BY DEF Chains, ChainsInOrder
  <2>5. \A first, q : q \in Seq(Nodes \ OfCAN) /\ Runs(first, q) => Runs(first, q)'
    BY <1>6, <2>1, <2>4, OtherChainKept
  <2> QED BY <1>4, <2>2, <2>3, <2>4, <2>5
<1>7. CASE CanRegister(c) /\ rx_cbs = NULL
  <2>1. on_can' = <<c>> /\ rx_cbs' = c /\ Link(c, c)
    BY <1>1, <1>2, <1>7 DEF CanRegister, With, ToSet
  <2>2. \A p \in From(c) : next[p] # c
    BY NoWayBack DEF Chains
  <2>3. next'[c] = NULL
    <3>1. PICK p \in From(c) : next' = [next EXCEPT ![p] = c, ![c] = NULL]
      BY <2>1, <2>2 DEF Link
    <3> QED BY <3>1 DEF Chains, LinksTyped
  <2>4. on_can' \in Seq(OfCAN) /\ Runs(rx_cbs, on_can)'
    BY <2>1, <2>3 DEF Runs
  <2>5. Runs(next[Root], registered)'
    BY <1>6, <2>1
  <2>6. registered' \in Seq(OfRoot)
    BY <1>4 DEF Chains
  <2> QED BY <2>4, <2>5, <2>6 DEF Chains, ChainsInOrder
<1>8. CASE CanRegister(c) /\ rx_cbs # NULL
  <2>1. rx_cbs' = rx_cbs /\ Link(rx_cbs, c) /\ c # rx_cbs /\ on_can' = With(s, c) /\ s # <<>>
    BY <1>2, <1>8 DEF CanRegister
  <2>2. rx_cbs \in OfCAN /\ Follows(rx_cbs, Tail(s)) /\ s[1] = rx_cbs
    BY <2>1, CANFollows
  <2>3. With(s, c) \in Seq(OfCAN)
    BY <1>0, <2>1, <2>2, FrontLink DEF Chains
  <2>4. Runs(rx_cbs, on_can)'
    <3>1. \A q : /\ q \in Seq(OfCAN) /\ q # <<>> /\ Follows(q[1], Tail(q)) /\ c # q[1]
                 /\ Link(q[1], c)
                 => Runs(q[1], With(q, c))'
      BY FrontLink DEF Chains
    <3> QED BY <1>0, <2>1, <2>2, <3>1
  <2>5. Runs(next[Root], registered)' /\ registered' \in Seq(OfRoot)
    BY <1>4, <1>6, <2>1, <2>2 DEF Chains
  <2> QED BY <2>1, <2>3, <2>4, <2>5 DEF Chains, ChainsInOrder
<1>9. CASE CanUnregister(c)
  <2>1. on_can' = Without(s, c) /\ on_can' \in Seq(OfCAN) /\ registered' \in Seq(OfRoot)
    <3>2. Without(s, c) \in Seq(OfCAN)
      BY <1>0, WithoutTyped
    <3> QED BY <1>4, <1>9, <3>2 DEF CanUnregister, Chains
  <2>2. CASE rx_cbs = NULL /\ UNCHANGED <<next, rx_cbs>>
    <3>1. on_can' = <<>>
      BY <1>1, <1>2, <2>1, <2>2, WithoutAbsent DEF ToSet
    <3> QED BY <1>5, <2>1, <2>2, <3>1 DEF Chains, ChainsInOrder, Runs
  <2>3. CASE rx_cbs = c /\ rx_cbs' = next[c] /\ UNCHANGED next
    <3>1. s # <<>> /\ s[1] = c /\ Follows(c, Tail(s))
      BY <1>2, <2>3, CANFollows, ChainConstantsOK
    <3>2. on_can' = Tail(s)
      BY <1>0, <2>1, <2>3, <3>1, FrontWithout DEF Chains
    <3>3. Runs(rx_cbs, on_can)'
      BY <2>3, <3>1, <3>2, Zenon DEF Follows, Runs
    <3> QED BY <1>5, <2>1, <2>3, <3>3 DEF Chains, ChainsInOrder
  <2>4. CASE rx_cbs \notin {NULL, c} /\ Unlink(rx_cbs, c) /\ UNCHANGED rx_cbs
    <3>1. s # <<>> /\ s[1] = rx_cbs /\ Follows(rx_cbs, Tail(s)) /\ rx_cbs \in OfCAN
      BY <1>2, <2>4, CANFollows
    <3>2. Runs(rx_cbs, on_can)'
      <4>1. \A q : /\ q \in Seq(OfCAN) /\ q # <<>> /\ Runs(q[1], q) /\ Follows(q[1], Tail(q))
                   /\ c # q[1] /\ Unlink(q[1], c)
                   => Runs(q[1], Without(q, c))'
        BY FrontUnlink DEF Chains
      <4> QED BY <1>0, <2>1, <2>4, <3>1, <4>1
    <3>3. Runs(next[Root], registered)'
      BY <1>6, <2>4, <3>1
    <3> QED BY <2>1, <3>2, <3>3 DEF Chains, ChainsInOrder
  <2> QED BY <1>9, <2>2, <2>3, <2>4 DEF CanUnregister
<1> QED BY <1>7, <1>8, <1>9 DEF CanRegister

(* Nor does the root's chain disturb the other. *)
LEMMA RootStep ==
  ASSUME Chains, NEW c \in OfRoot, Register(c) \/ Unregister(c),
         LinksTyped', NoRing'
  PROVE  Chains'
<1> USE DEF Nodes, Callbacks
<1>1. Follows(Root, registered) /\ registered \in Seq(OfRoot) /\ c \in Callbacks /\ c # Root
  BY RootFollows, ChainConstantsOK DEF Chains
<1>2. Link(Root, c) \/ Unlink(Root, c)
  BY DEF Register, Unregister
<1>3. UNCHANGED <<rx_cbs, on_can>>
  BY DEF Register, Unregister
<1>4. Runs(rx_cbs, on_can)'
  <2> DEFINE A == OfRoot \cup {Root}
  <2>1. From(Root) \subseteq A /\ c \in A
    BY FromRoot DEF Chains
  <2>2. on_can \in Seq(Nodes \ A)
    <3>1. OfCAN \subseteq Nodes \ A
      BY ChainConstantsOK
    <3> QED BY <3>1, SeqMonotonic DEF Chains
  <2> HIDE DEF A
  <2>3. \A first, q : q \in Seq(Nodes \ A) /\ Runs(first, q) => Runs(first, q)'
    BY <1>2, <2>1, OtherChainKept DEF Chains
  <2> QED BY <1>3, <2>2, <2>3 DEF Chains, ChainsInOrder
<1>5. CASE Register(c)
  <2>1. registered' = With(registered, c) /\ Link(Root, c)
    BY <1>5 DEF Register
  <2>2. With(registered, c) \in Seq(OfRoot)
    BY <1>1, AppendProperties DEF With
  <2>3. \A q : Follows(Root, q) => Runs(next[Root], With(q, c))'
    BY <1>1, <2>1, LinkAppends DEF Chains
  <2> QED BY <1>1, <1>3, <1>4, <2>1, <2>2, <2>3 DEF Chains, ChainsInOrder
<1>6. CASE Unregister(c)
  <2>1. registered' = Without(registered, c) /\ Unlink(Root, c)
    BY <1>6 DEF Unregister
  <2>2. Without(registered, c) \in Seq(OfRoot)
    BY <1>1, WithoutTyped
  <2>3. \A q : Follows(Root, q) => Runs(next[Root], Without(q, c))'
    BY <1>1, <2>1, UnlinkRemoves DEF Chains
  <2> QED BY <1>1, <1>3, <1>4, <2>1, <2>2, <2>3 DEF Chains, ChainsInOrder
<1> QED BY <1>5, <1>6

LEMMA ChainsInit == Init => Chains
  BY LinksInit, EmptySeq DEF Init, Chains, ChainsInOrder, Runs, Nodes

LEMMA ChainsStep == Chains /\ [Next]_vars => Chains'
<1> SUFFICES ASSUME Chains, [Next]_vars PROVE Chains'
  OBVIOUS
<1>1. LinksTyped' /\ NoRing'
  BY LinksStep DEF Chains
<1>2. ASSUME UNCHANGED <<next, rx_cbs, registered, on_can>> PROVE Chains'
  BY <1>1, <1>2 DEF Chains, ChainsInOrder, Runs
<1> QED BY <1>1, <1>2, RootStep, CANStep DEF Next, CallAll, CallNext, vars

(* However callbacks come and go, the chain of a root and that of a CAN    *)
(* interface hold what is registered with them, in the order of            *)
(* registration (Callbacks.h:29-62, CAN.h:31-49), for any number of them.  *)
THEOREM ChainsAlwaysInOrder == Spec => []ChainsInOrder
<1>1. Chains => ChainsInOrder
  BY DEF Chains
<1> QED BY <1>1, ChainsInit, ChainsStep, PTL DEF Spec

-----------------------------------------------------------------------------
(* call_all. *)

(* What is still due stands in s from k on. *)
Matches(d, s, k) ==
  /\ k + Len(d) - 1 <= Len(s)
  /\ \A i \in 1 .. Len(d) : d[i] = s[k + i - 1]

Injective(s) == \A i, j \in 1 .. Len(s) : s[i] = s[j] => i = j

(* Leaving s before k moves the place of what is due. *)
LEMMA LeaveBefore ==
  ASSUME NEW s \in Seq(OfRoot), NEW d \in Seq(OfRoot), Injective(s),
         NEW k \in 1 .. Len(s) + 1, Matches(d, s, k),
         NEW m \in 1 .. Len(s), m < k
  PROVE  Matches(Without(d, s[m]), Without(s, s[m]), k - 1)
<1>0. Len(s) \in Nat /\ Len(d) \in Nat
  BY LenProperties
<1>1. s[m] \notin ToSet(d)
  <2>1. ASSUME NEW i \in 1 .. Len(d), d[i] = s[m] PROVE FALSE
    <3>1. k + i - 1 \in 1 .. Len(s) /\ k + i - 1 # m
      BY <1>0 DEF Matches
    <3>2. s[k + i - 1] = s[m]
      BY <2>1 DEF Matches
    <3> QED BY <3>1, <3>2 DEF Injective
  <2> QED BY <2>1, LenProperties DEF ToSet
<1>2. Without(d, s[m]) = d
  BY <1>1, WithoutAbsent
<1> DEFINE t == Without(s, s[m])
<1>3. /\ Len(t) = Len(s) - 1
      /\ \A i \in m .. Len(s) - 1 : t[i] = s[i + 1]
  <2>1. \A i \in 1 .. Len(s) : s[i] = s[m] => i = m
    BY DEF Injective
  <2> QED BY <2>1, WithoutAt
<1> HIDE DEF t
<1>4. (k - 1) + Len(d) - 1 <= Len(t)
  BY <1>0, <1>3 DEF Matches
<1>5. ASSUME NEW i \in 1 .. Len(d) PROVE d[i] = t[(k - 1) + i - 1]
  <2>1. PICK n \in Int : n = (k - 1) + i - 1
    BY <1>0
  <2>2. n \in m .. Len(s) - 1 /\ n + 1 = k + i - 1
    BY <1>0, <2>1 DEF Matches
  <2>3. t[n] = s[k + i - 1]
    BY <1>3, <2>2
  <2> QED BY <2>1, <2>3 DEF Matches
<1> QED BY <1>2, <1>4, <1>5 DEF Matches, t

(* Leaving s behind k, where it may be due. *)
LEMMA LeaveBehind ==
  ASSUME NEW s \in Seq(OfRoot), NEW d \in Seq(OfRoot), Injective(s),
         NEW k \in 1 .. Len(s) + 1, Matches(d, s, k),
         NEW m \in 1 .. Len(s), k <= m
  PROVE  Matches(Without(d, s[m]), Without(s, s[m]), k)
<1>0. Len(s) \in Nat /\ Len(d) \in Nat
  BY LenProperties
<1> DEFINE t == Without(s, s[m])
           e == Without(d, s[m])
<1>1. /\ Len(t) = Len(s) - 1
      /\ \A i \in 1 .. m - 1 : t[i] = s[i]
      /\ \A i \in m .. Len(s) - 1 : t[i] = s[i + 1]
  <2>1. \A i \in 1 .. Len(s) : s[i] = s[m] => i = m
    BY DEF Injective
  <2> QED BY <2>1, WithoutAt
<1>2. CASE s[m] \notin ToSet(d)
  <2>1. e = d
    BY <1>2, WithoutAbsent
  <2>2. k + Len(d) - 1 < m
    <3>1. SUFFICES ASSUME k + Len(d) - 1 >= m PROVE FALSE
      BY <1>0
    <3>2. PICK i \in 1 .. Len(d) : k + i - 1 = m
      <4>1. m - k + 1 \in 1 .. Len(d) /\ k + (m - k + 1) - 1 = m
        BY <1>0, <3>1
      <4> QED BY <4>1
    <3>3. d[i] = s[m]
      BY <3>2 DEF Matches
    <3> QED BY <1>2, <3>3, LenProperties DEF ToSet
  <2> HIDE DEF t, e
  <2>3. ASSUME NEW i \in 1 .. Len(d) PROVE d[i] = t[k + i - 1]
    <3>1. k + i - 1 \in 1 .. m - 1
      BY <1>0, <2>2
    <3> QED BY <1>1, <3>1 DEF Matches
  <2>4. k + Len(d) - 1 <= Len(t)
    BY <1>0, <1>1, <2>2
  <2> QED BY <2>1, <2>3, <2>4 DEF Matches, t, e
<1>3. CASE s[m] \in ToSet(d)
  <2>1. PICK j \in 1 .. Len(d) : d[j] = s[m]
    BY <1>3, LenProperties DEF ToSet
  <2>2. \A i \in 1 .. Len(d) : k + i - 1 \in 1 .. Len(s)
    BY <1>0 DEF Matches
  <2>3. k + j - 1 = m
    BY <2>1, <2>2 DEF Matches, Injective
  <2>4. ASSUME NEW i \in 1 .. Len(d), d[i] = d[j] PROVE i = j
    <3>1. k + i - 1 = m
      BY <2>1, <2>2, <2>4 DEF Matches, Injective
    <3> QED BY <1>0, <2>3, <3>1
  <2>5. /\ Len(e) = Len(d) - 1
        /\ \A i \in 1 .. j - 1 : e[i] = d[i]
        /\ \A i \in j .. Len(d) - 1 : e[i] = d[i + 1]
    BY <2>1, <2>4, WithoutAt
  <2> HIDE DEF t, e
  <2>6. ASSUME NEW i \in 1 .. Len(e) PROVE e[i] = t[k + i - 1]
    <3>0. i \in Nat /\ 1 <= i /\ i <= Len(d) - 1 /\ j \in Nat
      BY <1>0, <2>5
    <3>1. CASE i < j
      <4>1. i \in 1 .. j - 1 /\ k + i - 1 \in 1 .. m - 1 /\ i \in 1 .. Len(d)
        BY <1>0, <2>3, <3>0, <3>1
      <4> QED BY <1>1, <2>5, <4>1 DEF Matches
    <3>2. CASE i >= j
      <4>1. PICK n \in Int : n = k + i - 1
        BY <3>0
      <4>2. /\ i \in j .. Len(d) - 1 /\ i + 1 \in 1 .. Len(d)
            /\ n \in m .. Len(s) - 1 /\ k + (i + 1) - 1 = n + 1
        BY <1>0, <2>3, <3>0, <3>2, <4>1 DEF Matches
      <4>3. e[i] = d[i + 1] /\ t[n] = s[n + 1]
        BY <1>1, <2>5, <4>2
      <4>4. d[i + 1] = s[k + (i + 1) - 1]
        BY <4>2 DEF Matches
      <4> QED BY <4>1, <4>2, <4>3, <4>4
    <3> QED BY <3>0, <3>1, <3>2
  <2>7. k + Len(e) - 1 <= Len(t)
    BY <1>0, <1>1, <2>5 DEF Matches
  <2> QED BY <2>6, <2>7 DEF Matches, t, e
<1> QED BY <1>2, <1>3

(* What is due at k is no longer due. *)
LEMMA CallAtPlace ==
  ASSUME NEW s \in Seq(OfRoot), NEW d \in Seq(OfRoot), Injective(s),
         NEW k \in 1 .. Len(s), Matches(d, s, k)
  PROVE  Matches(Without(d, s[k]), s, k + 1)
<1>0. Len(s) \in Nat /\ Len(d) \in Nat
  BY LenProperties
<1> DEFINE e == Without(d, s[k])
<1>1. CASE d = <<>>
  <2>1. e = d /\ Len(d) = 0
    <3>1. s[k] \notin ToSet(d)
      BY <1>1 DEF ToSet
    <3> QED BY <1>1, <3>1, WithoutAbsent, EmptySeq
  <2> HIDE DEF e
  <2> QED BY <1>0, <2>1 DEF Matches, e
<1>2. CASE d # <<>>
  <2>1. 1 \in 1 .. Len(d)
    BY <1>0, <1>2, EmptySeq
  <2>2. d[1] = s[k]
    <3>1. k + 1 - 1 = k
      OBVIOUS
    <3>2. d[1] = s[k + 1 - 1]
      BY <2>1 DEF Matches
    <3> QED BY <3>1, <3>2
  <2>3. ASSUME NEW i \in 1 .. Len(d), d[i] = d[1] PROVE i = 1
    <3>1. k + i - 1 \in 1 .. Len(s)
      BY <1>0 DEF Matches
    <3>2. k + i - 1 = k
      BY <2>2, <2>3, <3>1 DEF Matches, Injective
    <3> QED BY <1>0, <3>2
  <2>4. Len(e) = Len(d) - 1 /\ \A i \in 1 .. Len(d) - 1 : e[i] = d[i + 1]
    BY <2>1, <2>2, <2>3, WithoutAt
  <2> HIDE DEF e
  <2>5. ASSUME NEW i \in 1 .. Len(e) PROVE e[i] = s[(k + 1) + i - 1]
    <3>1. i \in 1 .. Len(d) - 1 /\ i + 1 \in 1 .. Len(d) /\ k + (i + 1) - 1 = (k + 1) + i - 1
      BY <1>0, <2>4
    <3>2. e[i] = d[i + 1]
      BY <2>4, <3>1
    <3>3. d[i + 1] = s[k + (i + 1) - 1]
      BY <3>1 DEF Matches
    <3> QED BY <3>1, <3>2, <3>3
  <2>6. (k + 1) + Len(e) - 1 <= Len(s)
    BY <1>0, <2>4 DEF Matches
  <2> QED BY <2>5, <2>6 DEF Matches, e
<1> QED BY <1>1, <1>2

(* Behind the callback being called comes what is due, or nothing is due.   *)
(* What comes first is in the chain at a place k, due or new since.         *)
Owed ==
  cur # NULL /\ ~strayed =>
    \/ next[cur] = NULL /\ due = <<>>
    \/ \E k \in 1 .. Len(registered) :
         next[cur] = registered[k] /\ Matches(due, registered, k)

CallInv == Chains /\ due \in Seq(OfRoot) /\ strayed \in BOOLEAN /\ Owed

LEMMA RegisteredFacts ==
  ASSUME Chains
  PROVE  /\ Follows(Root, registered) /\ Injective(registered)
         /\ Len(registered) \in Nat /\ DOMAIN registered = 1 .. Len(registered)
         /\ \A i \in 1 .. Len(registered) : /\ registered[i] \in OfRoot
                                            /\ registered[i] # NULL
         /\ \A i \in 1 .. Len(registered) : i = Len(registered) => next[registered[i]] = NULL
         /\ \A i \in 1 .. Len(registered) :
              i # Len(registered) => /\ i + 1 \in 1 .. Len(registered)
                                     /\ next[registered[i]] = registered[i + 1]
<1>1. Follows(Root, registered)
  BY RootFollows
<1>2. Injective(registered)
  BY <1>1, NothingTwice DEF Chains, Follows, Injective
<1>3. \A i \in 1 .. Len(registered) : registered[i] \in OfRoot
  BY LenProperties DEF Chains
<1> QED BY <1>1, <1>2, <1>3, ChainFacts, Zenon DEF Follows

LEMMA OwedFollows == CallInv => CallsWhatFollows
<1> SUFFICES ASSUME CallInv, cur # NULL, ~strayed
             PROVE  IF due # <<>> THEN next[cur] = Head(due)
                    ELSE next[cur] \in ToSet(registered) \cup {NULL}
  BY DEF CallsWhatFollows
<1>1. CASE next[cur] = NULL /\ due = <<>>
  BY <1>1
<1>2. CASE \E k \in 1 .. Len(registered) :
             next[cur] = registered[k] /\ Matches(due, registered, k)
  <2>1. PICK k \in 1 .. Len(registered) :
               next[cur] = registered[k] /\ Matches(due, registered, k)
    BY <1>2
  <2>2. next[cur] \in ToSet(registered)
    BY <2>1, RegisteredFacts DEF CallInv, ToSet
  <2>3. CASE due # <<>>
    <3>1. 1 \in 1 .. Len(due) /\ Head(due) = due[1]
      BY <2>3, LenProperties, EmptySeq DEF CallInv
    <3>2. k + 1 - 1 = k
      <4>1. Len(registered) \in Nat
        BY RegisteredFacts DEF CallInv
      <4> QED BY <4>1
    <3>3. due[1] = registered[k + 1 - 1]
      BY <2>1, <3>1 DEF Matches
    <3> QED BY <2>1, <2>3, <3>1, <3>2, <3>3
  <2> QED BY <2>2, <2>3
<1> QED BY <1>1, <1>2 DEF CallInv, Owed

LEMMA RegisterOwed ==
  ASSUME CallInv, NEW c \in OfRoot, Register(c)
  PROVE  Owed'
<1> DEFINE s == registered
           u == Append(s, c)
<1>1. /\ Chains /\ LinksTyped /\ Follows(Root, s) /\ c \in Callbacks /\ c \in Nodes
      /\ s \in Seq(OfRoot) /\ Len(s) \in Nat
      /\ \A i \in 1 .. Len(s) : s[i] # NULL
  BY RegisteredFacts DEF CallInv, Chains, Nodes, Callbacks
<1> SUFFICES ASSUME cur # NULL, ~strayed'
             PROVE  \/ next'[cur] = NULL /\ due = <<>>
                    \/ \E k \in 1 .. Len(registered') :
                         next'[cur] = registered'[k] /\ Matches(due, registered', k)
  BY DEF Owed, Register
<1>2. /\ ~strayed /\ ~ (Outside /\ c = cur /\ next[cur] # NULL)
      /\ registered' = With(s, c) /\ Link(Root, c)
  BY DEF Register
<1>3. \/ next[cur] = NULL /\ due = <<>>
      \/ \E k \in 1 .. Len(s) : next[cur] = s[k] /\ Matches(due, s, k)
  BY <1>2 DEF CallInv, Owed
<1>4. CASE c \in ToSet(s)
  <2>1. next' = next
    BY <1>1, <1>2, <1>4, Predecessor DEF Link
  <2>2. registered' = s
    BY <1>2, <1>4 DEF With
  <2> QED BY <1>3, <2>1, <2>2
<1>5. CASE c \notin ToSet(s)
  <2>1. PICK p \in From(Root) : next[p] = NULL /\ next' = [next EXCEPT ![p] = c, ![c] = NULL]
    BY <1>1, <1>2, <1>5, Predecessor DEF Link
  <2>2. registered' = u
    BY <1>2, <1>5 DEF With
  <2>3. /\ Len(u) = Len(s) + 1 /\ u[Len(s) + 1] = c
        /\ \A i \in 1 .. Len(s) : u[i] = s[i]
    BY <1>1, AppendProperties
  <2>4. p \in Nodes /\ cur \in OfRoot /\ cur \in Nodes
    BY <1>1, <2>1 DEF From, LinksTyped, Nodes, Callbacks
  <2>5. CASE cur = c
    <3>1. next[cur] = NULL
      BY <1>2, <1>5, <2>5 DEF Outside
    <3>2. due = <<>>
      BY <1>1, <1>3, <3>1
    <3>3. next'[cur] = NULL
      BY <2>1, <2>4, <2>5 DEF CallInv, Chains, LinksTyped
    <3> QED BY <3>2, <3>3
  <2>6. CASE cur # c /\ cur = p
    <3>1. due = <<>> /\ Len(due) = 0
      BY <1>1, <1>3, <2>1, <2>6
    <3>2. next'[cur] = c
      BY <2>1, <2>4, <2>6 DEF CallInv, Chains, LinksTyped
    <3>3. Len(s) + 1 \in 1 .. Len(u) /\ (Len(s) + 1) + 0 - 1 <= Len(u)
      BY <1>1, <2>3
    <3>4. Matches(due, u, Len(s) + 1)
      BY <3>1, <3>3 DEF Matches
    <3> QED BY <2>2, <2>3, <3>2, <3>3, <3>4
  <2>7. CASE cur # c /\ cur # p
    <3>1. next'[cur] = next[cur]
      BY <2>1, <2>4, <2>7 DEF CallInv, Chains, LinksTyped
    <3>2. ASSUME NEW k \in 1 .. Len(s), next[cur] = s[k], Matches(due, s, k)
          PROVE  k \in 1 .. Len(u) /\ next[cur] = u[k] /\ Matches(due, u, k)
      <4>1. Len(due) \in Nat
        BY LenProperties DEF CallInv
      <4> HIDE DEF s, u
      <4>2. k \in 1 .. Len(u) /\ k + Len(due) - 1 <= Len(u)
        BY <1>1, <2>3, <3>2, <4>1 DEF Matches
      <4>3. ASSUME NEW i \in 1 .. Len(due) PROVE due[i] = u[k + i - 1]
        <5>1. k + i - 1 \in 1 .. Len(s)
          BY <1>1, <3>2, <4>1 DEF Matches
        <5> QED BY <2>3, <3>2, <5>1 DEF Matches
      <4> QED BY <2>3, <3>2, <4>2, <4>3 DEF Matches
    <3> HIDE DEF s, u
    <3> QED BY <1>3, <2>2, <3>1, <3>2
  <2> QED BY <2>5, <2>6, <2>7
<1> QED BY <1>4, <1>5

LEMMA UnregisterOwed ==
  ASSUME CallInv, NEW c \in OfRoot, Unregister(c)
  PROVE  Owed'
<1> DEFINE s == registered
           d == due
<1>1. /\ Chains /\ LinksTyped /\ Follows(Root, s) /\ c \in Callbacks /\ Injective(s)
      /\ s \in Seq(OfRoot) /\ d \in Seq(OfRoot) /\ Len(s) \in Nat /\ DOMAIN s = 1 .. Len(s)
      /\ \A i \in 1 .. Len(s) : s[i] # NULL
  BY RegisteredFacts DEF CallInv, Chains, Callbacks
<1>1a. /\ \A i \in 1 .. Len(s) : i = Len(s) => next[s[i]] = NULL
       /\ \A i \in 1 .. Len(s) : i # Len(s) => i + 1 \in 1 .. Len(s) /\ next[s[i]] = s[i + 1]
  BY RegisteredFacts DEF CallInv
<1> SUFFICES ASSUME cur # NULL, ~strayed'
             PROVE  \/ next'[cur] = NULL /\ due' = <<>>
                    \/ \E k \in 1 .. Len(registered') :
                         next'[cur] = registered'[k] /\ Matches(due', registered', k)
  BY DEF Owed, Unregister
<1>2. /\ ~strayed /\ ~ (Outside /\ c = next[cur])
      /\ registered' = Without(s, c) /\ due' = Without(d, c) /\ Unlink(Root, c)
  BY DEF Unregister
<1>3. \/ next[cur] = NULL /\ d = <<>>
      \/ \E k \in 1 .. Len(s) : next[cur] = s[k] /\ Matches(d, s, k)
  BY <1>2 DEF CallInv, Owed
<1>4. d = <<>> => Without(d, c) = <<>>
  <2>1. d = <<>> => c \notin ToSet(d)
    BY DEF ToSet
  <2> QED BY <2>1, WithoutAbsent
<1>5. cur \in Nodes /\ NULL # c
  BY ChainConstantsOK DEF CallInv, Chains, LinksTyped, Nodes, Callbacks
<1> HIDE DEF s, d
<1>6. CASE c \notin ToSet(s)
  <2>1. next' = next
    BY <1>1, <1>2, <1>6, Predecessor DEF Unlink
  <2>2. registered' = s
    BY <1>2, <1>6, WithoutAbsent
  <2>3. CASE next[cur] = NULL /\ d = <<>>
    BY <1>2, <1>4, <2>1, <2>3
  <2>4. CASE \E k \in 1 .. Len(s) : next[cur] = s[k] /\ Matches(d, s, k)
    <3>1. PICK k \in 1 .. Len(s) : next[cur] = s[k] /\ Matches(d, s, k)
      BY <2>4
    <3>2. c \notin ToSet(d)
      <4>1. Len(d) \in Nat /\ DOMAIN d = 1 .. Len(d)
        BY <1>1, LenProperties
      <4>2. ASSUME NEW i \in 1 .. Len(d) PROVE d[i] \in ToSet(s)
        <5>1. k + i - 1 \in 1 .. Len(s)
          BY <1>1, <3>1, <4>1 DEF Matches
        <5>2. d[i] = s[k + i - 1]
          BY <3>1 DEF Matches
        <5> QED BY <1>1, <5>1, <5>2 DEF ToSet
      <4> QED BY <1>6, <4>1, <4>2 DEF ToSet
    <3>3. due' = d
      BY <1>2, <3>2, WithoutAbsent
    <3> QED BY <2>1, <2>2, <3>1, <3>3
  <2> QED BY <1>3, <2>3, <2>4
<1>7. CASE c \in ToSet(s)
  <2>1. PICK m \in 1 .. Len(s) : c = s[m]
    BY <1>1, <1>7 DEF ToSet
  <2>2. PICK p \in From(Root) : next[p] = c /\ next' = [next EXCEPT ![p] = next[c]]
    BY <1>1, <1>2, <1>7, Predecessor DEF Unlink
  <2>3. /\ next'[p] = next[c]
        /\ \A o \in Nodes : o # p => next'[o] = next[o]
    BY <1>1, <2>2 DEF From, LinksTyped
  <2> DEFINE u == Without(s, c)
  <2>4. /\ Len(u) = Len(s) - 1
        /\ \A i \in 1 .. m - 1 : u[i] = s[i]
        /\ \A i \in m .. Len(s) - 1 : u[i] = s[i + 1]
    <3>1. \A i \in 1 .. Len(s) : s[i] = s[m] => i = m
      BY <1>1 DEF Injective
    <3> QED BY <1>1, <2>1, <3>1, WithoutAt
  <2> HIDE DEF u
  <2>5. registered' = u
    BY <1>2 DEF u
  <2>6. CASE next[cur] = NULL /\ d = <<>>
    <3>1. next'[cur] = NULL
      BY <1>5, <2>2, <2>3, <2>6
    <3> QED BY <1>2, <1>4, <2>6, <3>1
  <2>7. ASSUME NEW k \in 1 .. Len(s), next[cur] = s[k], Matches(d, s, k), m < k
        PROVE  \E n \in 1 .. Len(u) : next'[cur] = u[n] /\ Matches(due', u, n)
    <3>1. s[k] # c
      BY <1>1, <2>1, <2>7 DEF Injective
    <3>2. next'[cur] = s[k]
      BY <1>5, <2>2, <2>3, <2>7, <3>1
    <3>3. PICK n \in 1 .. Len(u) : n = k - 1 /\ n \in m .. Len(s) - 1 /\ n + 1 = k
      <4>1. k - 1 \in 1 .. Len(u) /\ k - 1 \in m .. Len(s) - 1 /\ (k - 1) + 1 = k
        BY <1>1, <2>4, <2>7
      <4> QED BY <4>1
    <3>4. u[n] = s[k]
      BY <2>4, <3>3
    <3>5. Matches(due', u, k - 1)
      <4>1. k \in 1 .. Len(s) + 1
        BY <1>1
      <4> QED BY <1>1, <1>2, <2>1, <2>7, <4>1, LeaveBefore DEF u
    <3> QED BY <3>2, <3>3, <3>4, <3>5
  <2>8. ASSUME NEW k \in 1 .. Len(s), next[cur] = s[k], Matches(d, s, k), k < m
        PROVE  \E n \in 1 .. Len(u) : next'[cur] = u[n] /\ Matches(due', u, n)
    <3>1. s[k] # c
      BY <1>1, <2>1, <2>8 DEF Injective
    <3>2. next'[cur] = s[k]
      BY <1>5, <2>2, <2>3, <2>8, <3>1
    <3>3. k \in 1 .. Len(u) /\ k \in 1 .. m - 1 /\ k <= m /\ k \in 1 .. Len(s) + 1
      BY <1>1, <2>4, <2>8
    <3>4. Matches(due', u, k)
      BY <1>1, <1>2, <2>1, <2>8, <3>3, LeaveBehind DEF u
    <3> QED BY <2>4, <3>2, <3>3, <3>4
  <2>9. ASSUME next[cur] = s[m], Matches(d, s, m)
        PROVE  \/ next'[cur] = NULL /\ due' = <<>>
               \/ \E n \in 1 .. Len(u) : next'[cur] = u[n] /\ Matches(due', u, n)
    <3>1. cur \in ToSet(s)
      BY <1>2, <2>1, <2>9 DEF Outside, s
    <3>2. cur = p
      <4>1. PICK j \in 1 .. Len(s) : cur = s[j]
        BY <1>1, <3>1 DEF ToSet
      <4>2. j # Len(s) /\ j + 1 \in 1 .. Len(s) /\ s[j + 1] = s[m]
        BY <1>1, <1>1a, <2>9, <4>1
      <4>3. j + 1 = m
        BY <1>1, <4>2 DEF Injective
      <4>4. CASE p = Root
        <5>1. s[1] = c /\ 1 \in 1 .. Len(s)
          <6>1. 1 \in 1 .. Len(s)
            BY <1>1
          <6>2. Runs(next[Root], s) /\ s # <<>>
            BY <1>1, <6>1, EmptySeq DEF Follows
          <6> QED BY <2>2, <4>4, <6>1, <6>2 DEF Runs
        <5>2. m = 1
          BY <1>1, <2>1, <5>1 DEF Injective
        <5> QED BY <1>1, <4>3, <5>2
      <4>5. CASE p # Root
        <5>1. From(Root) = {Root} \cup ToSet(s)
          BY <1>1, FromChain
        <5>2. PICK i \in 1 .. Len(s) : p = s[i]
          BY <1>1, <4>5, <5>1 DEF ToSet
        <5>3. i # Len(s) /\ i + 1 \in 1 .. Len(s) /\ s[i + 1] = s[m]
          BY <1>1a, <1>5, <2>1, <2>2, <5>2
        <5>4. i + 1 = m
          BY <1>1, <5>3 DEF Injective
        <5>5. i = j
          BY <1>1, <4>3, <5>4
        <5> QED BY <4>1, <5>2, <5>5
      <4> QED BY <4>4, <4>5
    <3>3. next'[cur] = next[s[m]]
      BY <2>1, <2>3, <3>2
    <3>4. Matches(due', s, m + 1) /\ due' \in Seq(OfRoot)
      BY <1>1, <1>2, <2>1, <2>9, CallAtPlace, WithoutTyped
    <3>5. Len(due') \in Nat /\ (Len(due') = 0 => due' = <<>>)
      BY <3>4, LenProperties, EmptySeq
    <3>6. CASE m = Len(s)
      <4>1. next'[cur] = NULL
        BY <1>1a, <3>3, <3>6
      <4>2. Len(due') = 0
        BY <1>1, <3>4, <3>5, <3>6 DEF Matches
      <4> QED BY <3>5, <4>1, <4>2
    <3>7. CASE m # Len(s)
      <4>1. next'[cur] = s[m + 1]
        BY <1>1a, <3>3, <3>7
      <4>2. m \in 1 .. Len(u) /\ m \in m .. Len(s) - 1 /\ m <= m /\ m \in 1 .. Len(s) + 1
        <5>1. Len(s) \in Nat /\ Len(u) = Len(s) - 1
          BY <1>1, <2>4
        <5> QED BY <3>7, <5>1
      <4>3. u[m] = s[m + 1]
        BY <2>4, <4>2
      <4>4. Matches(due', u, m)
        BY <1>1, <1>2, <2>1, <2>9, <4>2, LeaveBehind DEF u
      <4> QED BY <4>1, <4>2, <4>3, <4>4
    <3> QED BY <3>6, <3>7
  <2>10. CASE \E k \in 1 .. Len(s) : next[cur] = s[k] /\ Matches(d, s, k)
    <3>1. PICK k \in 1 .. Len(s) : next[cur] = s[k] /\ Matches(d, s, k)
      BY <2>10
    <3>2. m < k \/ k < m \/ k = m
      BY <1>1
    <3> QED BY <2>5, <2>7, <2>8, <2>9, <3>1, <3>2
  <2> QED BY <1>3, <2>6, <2>10
<1> QED BY <1>6, <1>7

LEMMA CallAllOwed ==
  ASSUME CallInv, CallAll
  PROVE  Owed' /\ due' \in Seq(OfRoot)
<1> DEFINE s == registered
<1>1. s \in Seq(OfRoot) /\ Len(s) \in Nat /\ Runs(next[Root], s)
  BY RegisteredFacts DEF CallInv, Chains, ChainsInOrder
<1>1a. /\ \A i \in 1 .. Len(s) : i = Len(s) => next[s[i]] = NULL
       /\ \A i \in 1 .. Len(s) : i # Len(s) => i + 1 \in 1 .. Len(s) /\ next[s[i]] = s[i + 1]
  BY RegisteredFacts DEF CallInv
<1>2. /\ next[Root] # NULL /\ cur' = next[Root] /\ due' = Tail(s)
      /\ UNCHANGED <<next, registered>>
  BY DEF CallAll
<1>3. s # <<>> /\ cur' = s[1]
  BY <1>1, <1>2 DEF Runs
<1>4. /\ 1 \in 1 .. Len(s) /\ Tail(s) \in Seq(OfRoot) /\ Len(Tail(s)) = Len(s) - 1
      /\ \A i \in 1 .. Len(s) - 1 : Tail(s)[i] = s[i + 1]
  BY <1>1, <1>3, FrontFacts
<1> HIDE DEF s
<1>5. CASE Len(s) = 1
  <2>1. next[cur'] = NULL
    BY <1>1a, <1>3, <1>4, <1>5
  <2>2. Tail(s) = <<>>
    <3>1. Len(Tail(s)) = 0
      BY <1>4, <1>5
    <3> QED BY <1>4, <3>1, EmptySeq
  <2> QED BY <1>2, <1>4, <2>1, <2>2 DEF Owed
<1>6. CASE Len(s) # 1
  <2>1. 2 \in 1 .. Len(s) /\ 1 + 1 = 2
    BY <1>1, <1>4, <1>6
  <2>2. next[cur'] = s[1 + 1]
    BY <1>1a, <1>3, <1>4, <1>6
  <2>3. Matches(Tail(s), s, 2)
    <3>1. 2 + Len(Tail(s)) - 1 <= Len(s)
      BY <1>1, <1>4
    <3>2. ASSUME NEW i \in 1 .. Len(Tail(s)) PROVE Tail(s)[i] = s[2 + i - 1]
      <4>1. i \in 1 .. Len(s) - 1 /\ 2 + i - 1 = i + 1
        BY <1>1, <1>4
      <4> QED BY <1>4, <4>1
    <3> QED BY <3>1, <3>2 DEF Matches
  <2> QED BY <1>2, <1>4, <2>1, <2>2, <2>3 DEF Owed, s
<1> QED BY <1>5, <1>6

LEMMA CallNextOwed ==
  ASSUME CallInv, CallNext
  PROVE  Owed' /\ due' \in Seq(OfRoot)
<1> DEFINE s == registered
<1>1. /\ s \in Seq(OfRoot) /\ due \in Seq(OfRoot) /\ Len(s) \in Nat /\ Injective(s)
      /\ \A i \in 1 .. Len(s) : s[i] # NULL
  BY RegisteredFacts DEF CallInv, Chains
<1>1a. /\ \A i \in 1 .. Len(s) : i = Len(s) => next[s[i]] = NULL
       /\ \A i \in 1 .. Len(s) : i # Len(s) => i + 1 \in 1 .. Len(s) /\ next[s[i]] = s[i + 1]
  BY RegisteredFacts DEF CallInv
<1>2. /\ cur # NULL /\ cur' = next[cur] /\ UNCHANGED <<next, registered>>
      /\ due' = IF cur' = NULL THEN <<>> ELSE Without(due, cur')
      /\ strayed' = (strayed /\ cur' # NULL)
  BY DEF CallNext
<1>3. due' \in Seq(OfRoot)
  <2>1. Without(due, cur') \in Seq(OfRoot) /\ <<>> \in Seq(OfRoot)
    BY <1>1, WithoutTyped, EmptySeq
  <2> QED BY <1>2, <2>1
<1>4. ASSUME cur' # NULL, ~strayed'
      PROVE  \/ next[cur'] = NULL /\ due' = <<>>
             \/ \E k \in 1 .. Len(s) : next[cur'] = s[k] /\ Matches(due', s, k)
  <2>1. PICK k \in 1 .. Len(s) : next[cur] = s[k] /\ Matches(due, s, k)
    BY <1>2, <1>4 DEF CallInv, Owed
  <2> HIDE DEF s
  <2>2. due' = Without(due, s[k]) /\ cur' = s[k]
    BY <1>2, <1>4, <2>1
  <2>3. Matches(due', s, k + 1)
    BY <1>1, <2>1, <2>2, CallAtPlace
  <2>4. CASE k = Len(s)
    <3>1. Len(due') \in Nat /\ (Len(due') = 0 => due' = <<>>)
      BY <1>3, LenProperties, EmptySeq
    <3>2. Len(due') = 0
      BY <1>1, <2>3, <2>4, <3>1 DEF Matches
    <3>3. next[cur'] = NULL
      BY <1>1a, <2>2, <2>4
    <3> QED BY <3>1, <3>2, <3>3
  <2>5. CASE k # Len(s)
    <3>1. k + 1 \in 1 .. Len(s) /\ next[cur'] = s[k + 1]
      BY <1>1a, <2>2, <2>5
    <3> QED BY <2>3, <3>1
  <2> QED BY <2>4, <2>5
<1> QED BY <1>2, <1>3, <1>4 DEF Owed

LEMMA CallInvStep == CallInv /\ [Next]_vars => CallInv'
<1> SUFFICES ASSUME CallInv, [Next]_vars PROVE CallInv'
  OBVIOUS
<1>1. Chains'
  BY ChainsStep DEF CallInv
<1>2. ASSUME NEW c \in OfRoot, Register(c) PROVE CallInv'
  <2>1. strayed' \in BOOLEAN /\ due' \in Seq(OfRoot)
    BY <1>2 DEF Register, CallInv
  <2> QED BY <1>1, <1>2, <2>1, RegisterOwed DEF CallInv
<1>3. ASSUME NEW c \in OfRoot, Unregister(c) PROVE CallInv'
  <2>1. strayed' \in BOOLEAN /\ due' \in Seq(OfRoot)
    BY <1>3, WithoutTyped DEF Unregister, CallInv
  <2> QED BY <1>1, <1>3, <2>1, UnregisterOwed DEF CallInv
<1>4. CASE CallAll
  BY <1>1, <1>4, CallAllOwed DEF CallInv, CallAll
<1>5. CASE CallNext
  <2>1. strayed' \in BOOLEAN
    BY <1>5 DEF CallNext
  <2> QED BY <1>1, <1>5, <2>1, CallNextOwed DEF CallInv
<1>6. ASSUME NEW c \in OfCAN, CanRegister(c) \/ CanUnregister(c) PROVE CallInv'
  <2>1. UNCHANGED <<cur, registered, due, strayed>>
    BY <1>6 DEF CanRegister, CanUnregister
  <2>2. cur # NULL => next'[cur] = next[cur]
    <3>1. ASSUME cur # NULL PROVE cur \in Nodes \ OfCAN
      BY <3>1, ChainConstantsOK DEF CallInv, Chains, LinksTyped, Nodes, Callbacks
    <3>2. ASSUME NEW root \in OfCAN, Link(root, c) \/ Unlink(root, c), NEW o \in Nodes \ OfCAN
          PROVE  next'[o] = next[o]
      BY <3>2, FromCAN DEF Link, Unlink, CallInv, Chains, LinksTyped
    <3>3. rx_cbs \in OfCAN \cup {NULL}
      BY DEF CallInv, Chains, LinksTyped
    <3> QED BY <1>6, <3>1, <3>2, <3>3 DEF CanRegister, CanUnregister
  <2>3. Owed'
    BY <2>1, <2>2, Zenon DEF CallInv, Owed
  <2> QED BY <1>1, <2>1, <2>3 DEF CallInv
<1>7. CASE UNCHANGED vars
  BY <1>1, <1>7 DEF vars, CallInv, Owed
<1> QED BY <1>2, <1>3, <1>4, <1>5, <1>6, <1>7 DEF Next

LEMMA CallInvInit == Init => CallInv
  BY ChainsInit, EmptySeq DEF Init, CallInv, Owed

(* call_all (Callbacks.h:65-72) goes on with the first callback that it     *)
(* still owes a call, never with an unregistered one, however callbacks    *)
(* come and go meanwhile and however many there are, but for one that has  *)
(* unregistered itself and then registers again or removes its successor.  *)
THEOREM CallsAlwaysFollow == Spec => []CallsWhatFollows
  BY CallInvInit, CallInvStep, OwedFollows, PTL DEF Spec

(* call_all calls the first callback, and then one after the other those   *)
(* that it still owes a call, each once; it returns only when it owes none. *)
CallsInOrder ==
  [][/\ CallAll => cur' = Head(registered)
     /\ CallNext /\ ~strayed /\ due # <<>> => cur' = Head(due) /\ due' = Tail(due)
     /\ cur # NULL /\ cur' = NULL /\ ~strayed => due = <<>>]_vars

LEMMA DueIsCalled ==
  ASSUME CallInv, CallNext, ~strayed, due # <<>>
  PROVE  cur' = Head(due) /\ due' = Tail(due) /\ cur' # NULL
<1>1. /\ registered \in Seq(OfRoot) /\ due \in Seq(OfRoot) /\ Len(registered) \in Nat
      /\ Injective(registered) /\ \A i \in 1 .. Len(registered) : registered[i] # NULL
  BY RegisteredFacts DEF CallInv, Chains
<1>2. /\ cur # NULL /\ cur' = next[cur]
      /\ due' = IF cur' = NULL THEN <<>> ELSE Without(due, cur')
  BY DEF CallNext
<1>3. PICK k \in 1 .. Len(registered) : next[cur] = registered[k] /\ Matches(due, registered, k)
  BY <1>2 DEF CallInv, Owed
<1>4. /\ 1 \in 1 .. Len(due) /\ Len(due) \in Nat /\ Head(due) = due[1] /\ Tail(due) \in Seq(OfRoot)
      /\ Len(Tail(due)) = Len(due) - 1 /\ \A i \in 1 .. Len(due) - 1 : Tail(due)[i] = due[i + 1]
  BY <1>1, LenProperties, EmptySeq, HeadTailProperties
<1>5. \A i \in 1 .. Len(due) : due[i] = registered[k + i - 1] /\ k + i - 1 \in 1 .. Len(registered)
  BY <1>1, <1>3, <1>4 DEF Matches
<1>6. due[1] = registered[k] /\ cur' = due[1] /\ cur' # NULL
  <2>1. k + 1 - 1 = k
    BY <1>1
  <2> QED BY <1>1, <1>2, <1>3, <1>4, <1>5, <2>1
<1>7. \A i \in 1 .. Len(due) : due[i] = due[1] => i = 1
  <2> SUFFICES ASSUME NEW i \in 1 .. Len(due), due[i] = due[1] PROVE i = 1
    OBVIOUS
  <2>1. k + i - 1 = k
    BY <1>1, <1>5, <1>6 DEF Injective
  <2> QED BY <1>1, <1>4, <2>1
<1>8. due' = Without(due, due[1])
  BY <1>2, <1>6
<1>9. /\ due' \in Seq(OfRoot) /\ Len(due') = Len(due) - 1
      /\ \A i \in 1 .. Len(due) - 1 : due'[i] = due[i + 1]
  BY <1>1, <1>4, <1>7, <1>8, WithoutAt
<1>10. due' = Tail(due)
  BY <1>4, <1>9, SeqEqual
<1> QED BY <1>4, <1>6, <1>10

(* Each callback that is registered when call_all begins, and stays so     *)
(* until its turn, is called once, in the order of registration, whatever  *)
(* the others register and unregister meanwhile (Callbacks.h:65-72).       *)
THEOREM CallAllInOrder == Spec => CallsInOrder
<1>1. ASSUME CallInv, CallAll PROVE cur' = Head(registered)
  <2>1. registered \in Seq(OfRoot) /\ Runs(next[Root], registered) /\ next[Root] # NULL
    BY <1>1 DEF CallInv, Chains, ChainsInOrder, CallAll
  <2>2. registered # <<>> /\ next[Root] = registered[1]
    BY <2>1 DEF Runs
  <2> QED BY <1>1, <2>2 DEF CallAll
<1>2. ASSUME CallInv, [Next]_vars, cur # NULL, cur' = NULL, ~strayed PROVE due = <<>>
  <2>1. CallNext
    BY <1>2 DEF Next, Register, Unregister, CallAll, CanRegister, CanUnregister, vars
  <2> QED BY <1>2, <2>1, DueIsCalled
<1>3. CallInv /\ [Next]_vars =>
        [/\ CallAll => cur' = Head(registered)
         /\ CallNext /\ ~strayed /\ due # <<>> => cur' = Head(due) /\ due' = Tail(due)
         /\ cur # NULL /\ cur' = NULL /\ ~strayed => due = <<>>]_vars
  BY <1>1, <1>2, DueIsCalled
<1> QED BY <1>3, CallInvInit, CallInvStep, PTL DEF Spec, CallsInOrder

(* The links lead to callbacks of the same chain, and the sequences hold   *)
(* callbacks of it, whatever comes and goes.                               *)
THEOREM ChainTypeCorrect == Spec => []TypeOK
<1>1. CallInv => TypeOK
  BY DEF CallInv, Chains, LinksTyped, TypeOK
<1> QED BY <1>1, CallInvInit, CallInvStep, PTL DEF Spec

=============================================================================
