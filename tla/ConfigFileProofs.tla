---------------------------- MODULE ConfigFileProofs ----------------------------
(***************************************************************************)
(* What the parser makes of a text of vpn.conf and the policy made of that *)
(* are, for every text and every set of groups, what the reference reads   *)
(* off the lines (parser.go:31-83, configfile.go:78-194, 345-409).         *)
(***************************************************************************)
EXTENDS ConfigFile, WellFoundedInduction, TLAPS

(***************************************************************************)
(* Induction: over the numbers, and over folds.                            *)
(***************************************************************************)
LEMMA NatOrder == IsWellFoundedOn({ss \in Nat \X Nat : ss[1] < ss[2]}, Nat)
BY NatLessThanWellFounded DEF OpToRel

LEMMA LeastNat == ASSUME NEW T, T \subseteq Nat, T # {} PROVE \E x \in T : \A y \in T : x <= y
<1>1. PICK x \in T : \A y \in T : ~(<<y, x>> \in {ss \in Nat \X Nat : ss[1] < ss[2]})
  BY NatOrder, WFMin
<1>2. \A y \in T : ~(y < x)
  BY <1>1
<1> QED BY <1>2

(* A set that has 0, and n + 1 with every n below a bound, has all numbers *)
(* up to the bound.                                                        *)
LEMMA UpTo ==
    ASSUME NEW n \in Nat, NEW S, 0 \in S, \A i \in 0..(n - 1) : i \in S => i + 1 \in S
    PROVE  0..n \subseteq S
<1> SUFFICES ASSUME NEW k \in 0..n, k \notin S PROVE FALSE
  OBVIOUS
<1>1. PICK x \in (0..n) \ S : \A y \in (0..n) \ S : x <= y
  <2>1. (0..n) \ S \subseteq Nat /\ (0..n) \ S # {}
    OBVIOUS
  <2> QED BY <2>1, LeastNat
<1>2. x # 0
  BY <1>1
<1>3. x - 1 \in 0..(n - 1) /\ x - 1 \in S
  BY <1>1, <1>2
<1> QED BY <1>1, <1>3

LEMMA MaxUpTo ==
    ASSUME NEW n \in Nat, NEW S \in SUBSET (0..n), S # {}
    PROVE  Max(S) \in S /\ \A y \in S : y <= Max(S)
<1> DEFINE T == {x \in 0..n : \A y \in S : y <= x}
<1>1. T \subseteq Nat /\ n \in T
  OBVIOUS
<1>2. PICK x \in T : \A y \in T : x <= y
  BY <1>1, LeastNat
<1>3. x \in S
  <2> SUFFICES ASSUME x \notin S PROVE FALSE
    OBVIOUS
  <2>1. PICK y \in S : TRUE
    OBVIOUS
  <2>2. x # 0 /\ \A z \in S : z <= x - 1
    BY <1>2, <2>1
  <2>3. x - 1 \in T
    BY <1>2, <2>2
  <2> QED BY <1>2, <2>3
<1>4. x \in S /\ \A y \in S : x >= y
  BY <1>2, <1>3
<1>5. Max(S) \in S /\ \A y \in S : Max(S) >= y
  BY <1>4 DEF Max
<1> QED BY <1>5

LEMMA MinUpTo ==
    ASSUME NEW n \in Nat, NEW S \in SUBSET (0..n), S # {}
    PROVE  Min(S) \in S /\ \A y \in S : Min(S) <= y
<1>1. S \subseteq Nat
  OBVIOUS
<1>2. PICK x \in S : \A y \in S : x <= y
  BY <1>1, LeastNat
<1> QED BY <1>2 DEF Min

LEMMA MaxOf ==
    ASSUME NEW n \in Nat, NEW x \in 0..n, NEW S \in SUBSET (0..n), x \in S, \A y \in S : y <= x
    PROVE  Max(S) = x
<1>1. Max(S) \in S /\ \A y \in S : y <= Max(S)
  BY MaxUpTo
<1>2. Max(S) \in 0..n /\ Max(S) <= x /\ x <= Max(S)
  BY <1>1
<1> QED BY <1>2

(***************************************************************************)
(* A fold from the left goes through its sequence.                         *)
(***************************************************************************)
(* What MapThenFoldSet recurs over, for a step from an index and the value *)
(* so far.                                                                 *)
Table(D, base, step, n, g) ==
    /\ g \in [SUBSET (1..n) -> D]
    /\ g[{}] = base
    /\ \A s \in SUBSET (1..n) : s # {} => g[s] = step[<<Max(s), g[s \ {Max(s)}]>>]

LEMMA MaxSplits ==
    ASSUME NEW n \in Nat, NEW s \in SUBSET (1..(n + 1))
    PROVE  /\ s # {} => Max(s) \in s /\ s \ {Max(s)} \in SUBSET (1..n)
           /\ n + 1 \in s => Max(s) = n + 1
           /\ n + 1 \notin s => s \in SUBSET (1..n)
<1>1. n + 1 \in Nat /\ s \in SUBSET (0..(n + 1))
  OBVIOUS
<1>2. s # {} => Max(s) \in s /\ \A y \in s : y <= Max(s)
  BY <1>1, MaxUpTo
<1>3. n + 1 \in s => Max(s) = n + 1
  <2>1. n + 1 \in s => \A y \in s : y <= n + 1
    OBVIOUS
  <2> QED BY <1>1, <2>1, MaxOf
<1>4. ASSUME s # {} PROVE s \ {Max(s)} \in SUBSET (1..n)
  <2> SUFFICES ASSUME NEW y \in s, y # Max(s) PROVE y \in 1..n
    BY <1>4
  <2>1. y <= Max(s) /\ Max(s) \in 1..(n + 1) /\ y \in 1..(n + 1)
    BY <1>2
  <2> QED BY <2>1
<1>5. n + 1 \notin s => s \in SUBSET (1..n)
  OBVIOUS
<1> QED BY <1>2, <1>3, <1>4, <1>5

LEMMA TableGrows ==
    ASSUME NEW D, NEW base \in D, NEW n \in Nat, NEW m \in Nat, n + 1 <= m,
           NEW step \in [(1..m) \X D -> D],
           NEW g, Table(D, base, step, n, g)
    PROVE  \E h : Table(D, base, step, n + 1, h)
<1> DEFINE h == [s \in SUBSET (1..(n + 1)) |->
                    IF n + 1 \in s THEN step[<<n + 1, g[s \ {n + 1}]>>] ELSE g[s]]
<1>1. ASSUME NEW s \in SUBSET (1..(n + 1)), n + 1 \in s
      PROVE  h[s] \in D /\ Max(s) = n + 1 /\ h[s] = step[<<n + 1, h[s \ {n + 1}]>>]
  <2>1. Max(s) = n + 1 /\ s # {} /\ s \ {n + 1} \in SUBSET (1..n)
    BY <1>1, MaxSplits
  <2>2. s \ {n + 1} \in SUBSET (1..(n + 1)) /\ n + 1 \notin s \ {n + 1}
    BY <2>1
  <2>3. h[s \ {n + 1}] = g[s \ {n + 1}] /\ g[s \ {n + 1}] \in D
    BY <2>1, <2>2 DEF Table
  <2>4. h[s] = step[<<n + 1, g[s \ {n + 1}]>>]
    BY <1>1
  <2>5. n + 1 \in 1..m
    OBVIOUS
  <2> HIDE DEF h
  <2>6. step[<<n + 1, g[s \ {n + 1}]>>] \in D
    BY <2>3, <2>5
  <2> QED BY <2>1, <2>3, <2>4, <2>6
<1>2. ASSUME NEW s \in SUBSET (1..(n + 1)), n + 1 \notin s
      PROVE  h[s] = g[s] /\ s \in SUBSET (1..n)
  BY <1>2, MaxSplits
<1>3. h \in [SUBSET (1..(n + 1)) -> D]
  <2>1. \A s \in SUBSET (1..(n + 1)) : h[s] \in D
    BY <1>1, <1>2 DEF Table
  <2>2. h = [s \in SUBSET (1..(n + 1)) |-> h[s]]
    OBVIOUS
  <2> HIDE DEF h
  <2> QED BY <2>1, <2>2
<1> HIDE DEF h
<1>4. h[{}] = base
  <2>1. {} \in SUBSET (1..(n + 1)) /\ n + 1 \notin {}
    OBVIOUS
  <2> QED BY <2>1, <1>2 DEF Table
<1>5. ASSUME NEW s \in SUBSET (1..(n + 1)), s # {} PROVE h[s] = step[<<Max(s), h[s \ {Max(s)}]>>]
  <2>1. CASE n + 1 \in s
    BY <1>1, <2>1
  <2>2. CASE n + 1 \notin s
    <3>1. h[s] = g[s] /\ s \in SUBSET (1..n)
      BY <1>2, <2>2
    <3>2. s \ {Max(s)} \in SUBSET (1..(n + 1)) /\ n + 1 \notin s \ {Max(s)}
      BY <2>2
    <3>3. h[s \ {Max(s)}] = g[s \ {Max(s)}]
      BY <1>2, <3>2
    <3> QED BY <1>5, <3>1, <3>3 DEF Table
  <2> QED BY <2>1, <2>2
<1>6. Table(D, base, step, n + 1, h)
  BY <1>3, <1>4, <1>5 DEF Table
<1> QED BY <1>6

LEMMA TableExists ==
    ASSUME NEW D, NEW base \in D, NEW m \in Nat, NEW step \in [(1..m) \X D -> D]
    PROVE  \E g : Table(D, base, step, m, g)
<1> DEFINE S == {i \in 0..m : \E g : Table(D, base, step, i, g)}
<1>1. 0 \in S
  <2> DEFINE g == [s \in {{}} |-> base]
  <2>1. SUBSET (1..0) = {{}}
    BY SMT
  <2>2. g \in [SUBSET (1..0) -> D] /\ g[{}] = base
    BY <2>1
  <2>3. Table(D, base, step, 0, g)
    BY <2>1, <2>2 DEF Table
  <2> QED BY <2>3
<1>2. \A i \in 0..(m - 1) : i \in S => i + 1 \in S
  <2> SUFFICES ASSUME NEW i \in 0..(m - 1), i \in S PROVE i + 1 \in S
    OBVIOUS
  <2>1. PICK g : Table(D, base, step, i, g)
    OBVIOUS
  <2>2. \E h : Table(D, base, step, i + 1, h)
    <3>1. i \in Nat /\ i + 1 <= m
      OBVIOUS
    <3> HIDE DEF S
    <3> QED BY <2>1, <3>1, TableGrows
  <2>3. i + 1 \in 0..m
    OBVIOUS
  <2> QED BY <2>2, <2>3
<1>3. 0..m \subseteq S
  <2> HIDE DEF S
  <2> QED BY <1>1, <1>2, UpTo
<1> QED BY <1>3

(* A fold's table, read along the sequence: what it may hold besides the   *)
(* prefixes does not matter.                                               *)
Along(base, step, n, result, r) ==
    /\ r[0] = base
    /\ \A i \in 0..(n - 1) : r[i + 1] = step[<<i + 1, r[i]>>]
    /\ r[n] = result

LEMMA FoldAlong ==
    ASSUME NEW D, NEW base \in D, NEW n \in Nat, NEW step \in [(1..n) \X D -> D],
           NEW g, g[{}] = base,
           \A s \in SUBSET (1..n) : s # {} /\ g[s \ {Max(s)}] \in D =>
               g[s] = step[<<Max(s), g[s \ {Max(s)}]>>]
    PROVE  \E r \in [0..n -> D] : Along(base, step, n, g[1..n], r)
<1> DEFINE r == [i \in 0..n |-> g[1..i]]
<1>1. r[0] = base
  <2>1. 1..0 = {} /\ 0 \in 0..n
    OBVIOUS
  <2> QED BY <2>1
<1>2. ASSUME NEW i \in 0..(n - 1), r[i] \in D PROVE r[i + 1] = step[<<i + 1, r[i]>>]
  <2>1. 1..(i + 1) \in SUBSET (1..n) /\ 1..(i + 1) # {} /\ i + 1 \in 0..n /\ i \in 0..n
    OBVIOUS
  <2>2. Max(1..(i + 1)) = i + 1
    <3>1. i \in Nat /\ 1..(i + 1) \in SUBSET (1..(i + 1)) /\ i + 1 \in 1..(i + 1)
      OBVIOUS
    <3> QED BY <3>1, MaxSplits
  <2>3. (1..(i + 1)) \ {i + 1} = 1..i
    OBVIOUS
  <2> QED BY <1>2, <2>1, <2>2, <2>3
<1>3. r[n] = g[1..n]
  OBVIOUS
<1>4. r = [i \in 0..n |-> r[i]]
  OBVIOUS
<1> HIDE DEF r
<1>5. \A i \in 0..n : r[i] \in D
  <2> DEFINE S == {i \in 0..n : r[i] \in D}
  <2>1. 0 \in S
    BY <1>1
  <2>2. \A i \in 0..(n - 1) : i \in S => i + 1 \in S
    <3> SUFFICES ASSUME NEW i \in 0..(n - 1), i \in S PROVE i + 1 \in S
      OBVIOUS
    <3>1. i + 1 \in 1..n /\ i + 1 \in 0..n /\ r[i] \in D
      OBVIOUS
    <3> QED BY <1>2, <3>1
  <2> HIDE DEF S
  <2>3. 0..n \subseteq S
    BY <2>1, <2>2, UpTo
  <2> QED BY <2>3 DEF S
<1>6. r \in [0..n -> D]
  BY <1>4, <1>5
<1>7. \A i \in 0..(n - 1) : r[i + 1] = step[<<i + 1, r[i]>>]
  <2> SUFFICES ASSUME NEW i \in 0..(n - 1) PROVE r[i + 1] = step[<<i + 1, r[i]>>]
    OBVIOUS
  <2>1. i \in 0..n
    OBVIOUS
  <2> QED BY <1>2, <1>5, <2>1
<1> QED BY <1>1, <1>3, <1>6, <1>7 DEF Along

(***************************************************************************)
(* What the parser has read keeps its shape.                               *)
(***************************************************************************)
Collections == UNION {[S -> Seq(Statements)] : S \in SUBSET Sections}

Reads == [of : Collections, order : Seq(Groups), section : Sections \cup {None}] \cup {None}

LEMMA LineTyped ==
    ASSUME NEW line \in Lines
    PROVE  /\ line = [word |-> line.word, arg |-> line.arg, ports |-> line.ports, ok |-> line.ok]
           /\ line.word = "section" => line.arg \in Sections
           /\ line.word # "section" => line \in Statements
           /\ line.ok \in BOOLEAN
           /\ line.word \in {"subnet", "route", "nat", "dns", "server", "section"}
BY DEF Lines, Statements

LEMMA CollectionTyped ==
    ASSUME NEW of
    PROVE  of \in Collections <=>
              /\ DOMAIN of \in SUBSET Sections
              /\ of = [s \in DOMAIN of |-> of[s]]
              /\ \A s \in DOMAIN of : of[s] \in Seq(Statements)
<1>1. ASSUME of \in Collections
      PROVE  /\ DOMAIN of \in SUBSET Sections
             /\ of = [s \in DOMAIN of |-> of[s]]
             /\ \A s \in DOMAIN of : of[s] \in Seq(Statements)
  <2>1. PICK S \in SUBSET Sections : of \in [S -> Seq(Statements)]
    BY <1>1 DEF Collections
  <2> QED BY <2>1
<1>2. ASSUME DOMAIN of \in SUBSET Sections, of = [s \in DOMAIN of |-> of[s]],
             \A s \in DOMAIN of : of[s] \in Seq(Statements)
      PROVE  of \in Collections
  <2>1. of \in [DOMAIN of -> Seq(Statements)]
    BY <1>2
  <2> QED BY <1>2, <2>1 DEF Collections
<1> QED BY <1>1, <1>2

LEMMA OpenedTyped ==
    ASSUME NEW read \in Reads, read # None, NEW s \in Sections
    PROVE  Opened(read, s) \in Reads
<1>1. /\ read.of \in Collections /\ read.order \in Seq(Groups)
      /\ read.section \in Sections \cup {None}
  BY DEF Reads
<1> DEFINE of == [t \in DOMAIN read.of \cup {s} |-> IF t \in DOMAIN read.of THEN read.of[t] ELSE <<>>]
<1>2. of \in Collections
  <2>1. DOMAIN of \in SUBSET Sections
    BY <1>1, CollectionTyped
  <2>2. \A t \in DOMAIN of : of[t] \in Seq(Statements)
    BY <1>1, CollectionTyped
  <2>3. of = [t \in DOMAIN of |-> of[t]]
    OBVIOUS
  <2> HIDE DEF of
  <2> QED BY <2>1, <2>2, <2>3, CollectionTyped
<1>3. (IF s \in Groups \ DOMAIN read.of THEN Append(read.order, s) ELSE read.order) \in Seq(Groups)
  BY <1>1
<1> HIDE DEF of
<1> QED BY <1>2, <1>3 DEF Opened, Reads, of

LEMMA SaidTyped ==
    ASSUME NEW read \in Reads, read # None, NEW st \in Statements
    PROVE  Said(read, st) \in Reads
<1>1. /\ read.of \in Collections /\ read.order \in Seq(Groups)
      /\ read.section \in Sections \cup {None}
      /\ read = [of |-> read.of, order |-> read.order, section |-> read.section]
  BY DEF Reads
<1> DEFINE of == [read.of EXCEPT ![read.section] = Append(@, st)]
<1>2. of \in Collections
  <2>1. DOMAIN of = DOMAIN read.of /\ of = [t \in DOMAIN of |-> of[t]]
    OBVIOUS
  <2>2. \A t \in DOMAIN of : of[t] = IF t = read.section THEN Append(read.of[t], st) ELSE read.of[t]
    OBVIOUS
  <2>3. \A t \in DOMAIN of : of[t] \in Seq(Statements)
    BY <1>1, <2>1, <2>2, CollectionTyped
  <2> HIDE DEF of
  <2> QED BY <1>1, <2>1, <2>3, CollectionTyped
<1>3. [read EXCEPT !.of[read.section] = Append(@, st)]
         = [of |-> of, order |-> read.order, section |-> read.section]
  BY <1>1
<1> HIDE DEF of
<1> QED BY <1>1, <1>2, <1>3 DEF Said, Reads

LEMMA ReadTyped ==
    ASSUME NEW read \in Reads, NEW line \in Lines PROVE ParseLine(read, line) \in Reads
<1>1. CASE read = None \/ Refused(read, line)
  BY <1>1 DEF ParseLine, Reads
<1>2. CASE ~(read = None \/ Refused(read, line)) /\ line.word = "section"
  <2>1. ParseLine(read, line) = Opened(read, line.arg)
    BY <1>2 DEF ParseLine
  <2> QED BY <1>2, <2>1, LineTyped, OpenedTyped
<1>3. CASE ~(read = None \/ Refused(read, line)) /\ line.word # "section"
  <2>1. ParseLine(read, line) = Said(read, line)
    BY <1>3 DEF ParseLine
  <2> QED BY <1>3, <2>1, LineTyped, SaidTyped
<1> QED BY <1>1, <1>2, <1>3

LEMMA NothingTyped == NothingRead \in Reads
<1> DEFINE of == [s \in {"global"} |-> <<>>]
<1>1. of \in Collections
  <2>1. of = [s \in DOMAIN of |-> of[s]] /\ DOMAIN of = {"global"}
        /\ \A s \in DOMAIN of : of[s] \in Seq(Statements)
    OBVIOUS
  <2> HIDE DEF of
  <2> QED BY <2>1, CollectionTyped DEF Sections
<1> HIDE DEF of
<1> QED BY <1>1 DEF NothingRead, Reads, of

(* Line by line, from nothing read to what ParseConfig looks at.           *)
Steps(lines, r) ==
    /\ r \in [0..Len(lines) -> Reads]
    /\ r[0] = NothingRead
    /\ \A i \in 0..(Len(lines) - 1) : r[i + 1] = ParseLine(r[i], lines[i + 1])
    /\ r[Len(lines)] = FoldLeft(ParseLine, NothingRead, lines)

LEMMA LineByLine == ASSUME NEW lines \in Seq(Lines) PROVE \E r : Steps(lines, r)
<1> DEFINE n == Len(lines)
           step == [ix \in (1..n) \X Reads |-> ParseLine(ix[2], lines[ix[1]])]
           g == CHOOSE h : h = [s \in SUBSET DOMAIN lines |->
                    IF s = {} THEN NothingRead ELSE ParseLine(h[s \ {Max(s)}], lines[Max(s)])]
<1>1. n \in Nat /\ DOMAIN lines = 1..n /\ \A i \in 1..n : lines[i] \in Lines
  OBVIOUS
<1>2. FoldLeft(ParseLine, NothingRead, lines) = g[DOMAIN lines]
  BY DEF FoldLeft, MapThenFoldSet
<1> HIDE DEF n
<1>3. step \in [(1..n) \X Reads -> Reads]
  BY <1>1, ReadTyped
<1>4. \A i \in 1..n, x \in Reads : step[<<i, x>>] = ParseLine(x, lines[i])
  OBVIOUS
<1> HIDE DEF step
<1>5. ASSUME NEW s \in SUBSET (1..n), s # {}
      PROVE  Max(s) \in 1..n /\ s \ {Max(s)} \in SUBSET (1..n)
  <2>1. s \in SUBSET (1..(n + 1))
    BY <1>1
  <2> QED BY <1>1, <1>5, <2>1, MaxSplits
<1>6. \E t : t = [s \in SUBSET DOMAIN lines |->
                 IF s = {} THEN NothingRead ELSE ParseLine(t[s \ {Max(s)}], lines[Max(s)])]
  <2>1. PICK t : Table(Reads, NothingRead, step, n, t)
    BY <1>1, <1>3, NothingTyped, TableExists
  <2>2. t = [s \in SUBSET (1..n) |-> t[s]] /\ t[{}] = NothingRead
    BY <2>1 DEF Table
  <2>3. ASSUME NEW s \in SUBSET (1..n), s # {}
        PROVE  t[s] = ParseLine(t[s \ {Max(s)}], lines[Max(s)])
    <3>1. t[s \ {Max(s)}] \in Reads /\ Max(s) \in 1..n
      BY <1>5, <2>1, <2>3 DEF Table
    <3> QED BY <1>4, <2>1, <2>3, <3>1 DEF Table
  <2>4. t = [s \in SUBSET (1..n) |->
                 IF s = {} THEN NothingRead ELSE ParseLine(t[s \ {Max(s)}], lines[Max(s)])]
    BY <2>2, <2>3
  <2> QED BY <1>1, <2>4
<1>7. g = [s \in SUBSET (1..n) |->
              IF s = {} THEN NothingRead ELSE ParseLine(g[s \ {Max(s)}], lines[Max(s)])]
  BY <1>1, <1>6
<1> HIDE DEF g
<1>8. g[{}] = NothingRead
  BY <1>7
<1>9. ASSUME NEW s \in SUBSET (1..n), s # {} /\ g[s \ {Max(s)}] \in Reads
      PROVE  g[s] = step[<<Max(s), g[s \ {Max(s)}]>>]
  BY <1>4, <1>5, <1>7, <1>9
<1>10. PICK r \in [0..n -> Reads] : Along(NothingRead, step, n, g[1..n], r)
  BY <1>1, <1>3, <1>8, <1>9, NothingTyped, FoldAlong
<1>11. ASSUME NEW i \in 0..(n - 1) PROVE r[i + 1] = ParseLine(r[i], lines[i + 1])
  <2>1. i + 1 \in 1..n /\ i \in 0..n
    BY <1>1
  <2>2. r[i] \in Reads
    BY <2>1
  <2> QED BY <1>4, <1>10, <2>1, <2>2 DEF Along
<1> QED BY <1>1, <1>2, <1>10, <1>11 DEF Steps, Along, n

-----------------------------------------------------------------------------
(***************************************************************************)
(* The lines and their sections.                                           *)
(***************************************************************************)
(* The lines that are whole are the lines that are read.                   *)
Whole(text) == {i \in DOMAIN text.lines : text.ended \/ i < Len(text.lines)}

WholeHeaders(text, s) ==
    {i \in Whole(text) : text.lines[i].word = "section" /\ text.lines[i].arg = s}

LEMMA WholeRead ==
    ASSUME NEW text, IsText(text)
    PROVE  /\ text.lines \in Seq(Lines) /\ Read(text) \in Seq(Lines)
           /\ Len(Read(text)) <= Len(text.lines)
           /\ Whole(text) = 1..Len(Read(text))
           /\ \A i \in 1..Len(Read(text)) : Read(text)[i] = text.lines[i] /\ text.lines[i] \in Lines
<1>1. text.lines \in Seq(Lines) /\ text.ended \in BOOLEAN /\ (text.lines = <<>> => text.ended)
  BY DEF IsText
<1> DEFINE lines == text.lines
<1>2. CASE text.ended
  <2>1. Read(text) = text.lines
    BY <1>2 DEF Read
  <2> QED BY <1>1, <1>2, <2>1 DEF Whole
<1>3. CASE ~text.ended
  <2>1. Len(lines) \in Nat /\ Len(lines) # 0
    BY <1>1, <1>3
  <2>2. Read(text) = SubSeq(lines, 1, Len(lines) - 1)
    BY <1>3 DEF Read, Front
  <2>3. Read(text) \in Seq(Lines) /\ Len(Read(text)) = Len(lines) - 1
        /\ \A i \in 1..(Len(lines) - 1) : Read(text)[i] = lines[i]
    BY <1>1, <2>1, <2>2
  <2>4. Whole(text) = 1..(Len(lines) - 1)
    BY <1>1, <1>3, <2>1 DEF Whole
  <2> QED BY <1>1, <2>1, <2>3, <2>4
<1> QED BY <1>1, <1>2, <1>3

IsHeader(text, h) == text.lines[h].word = "section"

Heads(text, h, s) == IsHeader(text, h) /\ text.lines[h].arg = s

Under(text, i) == \E h \in 1..i : IsHeader(text, h)

(* The section of a line is that of its own header or of the line above.   *)
LEMMA SectionSteps ==
    ASSUME NEW text, NEW i \in Nat
    PROVE  /\ Under(text, i) => \E h \in 1..i : Heads(text, h, SectionOf(text, i))
           /\ IsHeader(text, i + 1) => SectionOf(text, i + 1) = text.lines[i + 1].arg
           /\ ~IsHeader(text, i + 1) => SectionOf(text, i + 1) = SectionOf(text, i)
<1> DEFINE H(j) == {h \in 1..j : IsHeader(text, h)}
<1>1. \A j : SectionOf(text, j) = text.lines[Max(H(j))].arg
  BY DEF SectionOf, IsHeader
<1>2. ASSUME Under(text, i) PROVE \E h \in 1..i : Heads(text, h, SectionOf(text, i))
  <2>1. H(i) \in SUBSET (0..i) /\ H(i) # {}
    BY <1>2 DEF Under
  <2>2. Max(H(i)) \in H(i)
    <3> HIDE DEF H
    <3> QED BY <2>1, MaxUpTo
  <2> QED BY <1>1, <2>2 DEF Heads
<1>3. ASSUME IsHeader(text, i + 1) PROVE SectionOf(text, i + 1) = text.lines[i + 1].arg
  <2>1. /\ i + 1 \in Nat /\ i + 1 \in 0..(i + 1) /\ H(i + 1) \in SUBSET (0..(i + 1))
        /\ i + 1 \in H(i + 1) /\ \A y \in H(i + 1) : y <= i + 1
    BY <1>3
  <2>2. Max(H(i + 1)) = i + 1
    <3> HIDE DEF H
    <3> QED BY <2>1, MaxOf
  <2> QED BY <1>1, <2>2
<1>4. ASSUME ~IsHeader(text, i + 1) PROVE SectionOf(text, i + 1) = SectionOf(text, i)
  <2>1. H(i + 1) = H(i)
    BY <1>4
  <2> QED BY <1>1, <2>1
<1> QED BY <1>2, <1>3, <1>4

-----------------------------------------------------------------------------
(***************************************************************************)
(* Statements taken from lines, the last one outranking those before it.   *)
(***************************************************************************)
TakenBy(text, stmts, J, f) ==
    /\ f \in [1..Len(stmts) -> J]
    /\ \A j \in J : \E k \in 1..Len(stmts) : f[k] = j
    /\ \A k \in 1..Len(stmts) : stmts[k] = text.lines[f[k]]
    /\ \A k, l \in 1..Len(stmts) : k <= l => Outranks(text, f[l], f[k])

Collected(text, stmts, J) ==
    stmts \in Seq(Statements) /\ \E f : TakenBy(text, stmts, J, f)

LEMMA CollectedNone == ASSUME NEW text PROVE Collected(text, <<>>, {})
<1>1. TakenBy(text, <<>>, {}, <<>>)
  BY DEF TakenBy
<1> QED BY <1>1 DEF Collected

LEMMA CollectedJoined ==
    ASSUME NEW text, NEW s, NEW I, Collected(text, s, I), NEW t, NEW J, Collected(text, t, J),
           \A i \in I, j \in J : Outranks(text, j, i)
    PROVE  Collected(text, s \o t, I \cup J)
<1>1. s \in Seq(Statements) /\ t \in Seq(Statements)
  BY DEF Collected
<1>2. PICK f : TakenBy(text, s, I, f)
  BY DEF Collected
<1>3. PICK g : TakenBy(text, t, J, g)
  BY DEF Collected
<1> DEFINE m == Len(s)
           n == Len(t)
           h == [k \in 1..Len(s \o t) |-> IF k <= m THEN f[k] ELSE g[k - m]]
<1>4. /\ m \in Nat /\ n \in Nat /\ Len(s \o t) = m + n /\ s \o t \in Seq(Statements)
      /\ \A k \in 1..m : k \in 1..Len(s \o t) /\ (s \o t)[k] = s[k] /\ h[k] = f[k]
      /\ \A k \in 1..n : m + k \in 1..Len(s \o t) /\ (s \o t)[m + k] = t[k]
      /\ \A k \in 1..n : h[m + k] = g[k]
      /\ \A k \in 1..Len(s \o t) : k \in 1..m \/ (k - m \in 1..n /\ k = m + (k - m))
  BY <1>1
<1>5. h \in [1..Len(s \o t) -> I \cup J]
  <2>1. \A k \in 1..Len(s \o t) : h[k] \in I \cup J
    <3> SUFFICES ASSUME NEW k \in 1..Len(s \o t) PROVE h[k] \in I \cup J
      OBVIOUS
    <3> HIDE DEF h
    <3>1. CASE k \in 1..m
      BY <1>2, <1>4, <3>1 DEF TakenBy
    <3>2. CASE k - m \in 1..n /\ k = m + (k - m)
      BY <1>3, <1>4, <3>2 DEF TakenBy
    <3> QED BY <1>4, <3>1, <3>2
  <2>2. h = [k \in 1..Len(s \o t) |-> h[k]]
    OBVIOUS
  <2> HIDE DEF h
  <2> QED BY <2>1, <2>2
<1> HIDE DEF h
<1>6. \A j \in I \cup J : \E k \in 1..Len(s \o t) : h[k] = j
  <2>1. ASSUME NEW j \in I PROVE \E k \in 1..Len(s \o t) : h[k] = j
    BY <1>2, <1>4 DEF TakenBy
  <2>2. ASSUME NEW j \in J PROVE \E k \in 1..Len(s \o t) : h[k] = j
    <3>1. PICK k \in 1..n : g[k] = j
      BY <1>3 DEF TakenBy
    <3> QED BY <1>4, <3>1
  <2> QED BY <2>1, <2>2
<1>7. \A k \in 1..Len(s \o t) : (s \o t)[k] = text.lines[h[k]]
  <2> SUFFICES ASSUME NEW k \in 1..Len(s \o t) PROVE (s \o t)[k] = text.lines[h[k]]
    OBVIOUS
  <2>1. CASE k \in 1..m
    BY <1>2, <1>4, <2>1 DEF TakenBy
  <2>2. CASE k - m \in 1..n /\ k = m + (k - m)
    <3>1. (s \o t)[m + (k - m)] = t[k - m] /\ h[m + (k - m)] = g[k - m]
      BY <1>4, <2>2
    <3> QED BY <1>3, <2>2, <3>1 DEF TakenBy
  <2> QED BY <1>4, <2>1, <2>2
<1>8. \A k, l \in 1..Len(s \o t) : k <= l => Outranks(text, h[l], h[k])
  <2> SUFFICES ASSUME NEW k \in 1..Len(s \o t), NEW l \in 1..Len(s \o t), k <= l
               PROVE  Outranks(text, h[l], h[k])
    OBVIOUS
  <2>1. CASE k \in 1..m /\ l \in 1..m
    BY <1>2, <1>4, <2>1 DEF TakenBy
  <2>2. CASE k \in 1..m /\ l - m \in 1..n /\ l = m + (l - m)
    <3>1. h[k] = f[k] /\ f[k] \in I
      BY <1>2, <1>4, <2>2 DEF TakenBy
    <3>2. h[m + (l - m)] = g[l - m] /\ g[l - m] \in J
      BY <1>3, <1>4, <2>2 DEF TakenBy
    <3> QED BY <2>2, <3>1, <3>2
  <2>3. CASE k - m \in 1..n /\ k = m + (k - m) /\ l - m \in 1..n /\ l = m + (l - m)
    <3>1. h[m + (k - m)] = g[k - m] /\ h[m + (l - m)] = g[l - m] /\ k - m <= l - m
      BY <1>4, <2>3
    <3> QED BY <1>3, <2>3, <3>1 DEF TakenBy
  <2> QED BY <1>4, <2>1, <2>2, <2>3
<1>9. TakenBy(text, s \o t, I \cup J, h)
  BY <1>5, <1>6, <1>7, <1>8 DEF TakenBy
<1> QED BY <1>4, <1>9 DEF Collected

LEMMA CollectedOne ==
    ASSUME NEW text, NEW i \in Nat, text.lines[i] \in Statements
    PROVE  Collected(text, <<text.lines[i]>>, {i})
<1> DEFINE f == [k \in 1..1 |-> i]
<1>1. Len(<<text.lines[i]>>) = 1 /\ <<text.lines[i]>> \in Seq(Statements)
      /\ <<text.lines[i]>>[1] = text.lines[i]
  OBVIOUS
<1>2. \A k \in 1..1 : k = 1
  OBVIOUS
<1>3. Outranks(text, i, i)
  BY DEF Outranks
<1>4. TakenBy(text, <<text.lines[i]>>, {i}, f)
  BY <1>1, <1>2, <1>3 DEF TakenBy
<1> QED BY <1>1, <1>4 DEF Collected

LEMMA CollectedSet ==
    ASSUME NEW text, NEW stmts, NEW J, Collected(text, stmts, J)
    PROVE  ToSet(stmts) = {text.lines[j] : j \in J}
<1>1. PICK f : TakenBy(text, stmts, J, f)
  BY DEF Collected
<1>2. DOMAIN stmts = 1..Len(stmts)
  BY DEF Collected
<1> QED BY <1>1, <1>2 DEF TakenBy, ToSet

(* The last statement of a word is the one of highest rank.                *)
LastAmong(text, J, word, default) ==
    LET said == {i \in J : text.lines[i].word = word}
    IN  IF said = {} THEN default
        ELSE text.lines[CHOOSE i \in said : \A j \in said : Outranks(text, i, j)].arg

LEMMA CollectedLast ==
    ASSUME NEW text, NEW stmts, NEW J, J \subseteq Nat, Collected(text, stmts, J),
           \A j \in J : Rank(text, SectionOf(text, j)) \in Nat,
           NEW word, NEW default
    PROVE  Setting(stmts, word, default) = LastAmong(text, J, word, default)
<1> DEFINE said == {i \in J : text.lines[i].word = word}
           at == {k \in DOMAIN stmts : stmts[k].word = word}
           top == CHOOSE i \in said : \A j \in said : Outranks(text, i, j)
<1>1. PICK f : TakenBy(text, stmts, J, f)
  BY DEF Collected
<1>2. Len(stmts) \in Nat /\ DOMAIN stmts = 1..Len(stmts)
  BY DEF Collected
<1>3. at = {} <=> said = {}
  <2>1. ASSUME NEW k \in at PROVE f[k] \in said
    BY <1>1, <1>2 DEF TakenBy
  <2>2. ASSUME NEW j \in said PROVE \E k \in at : f[k] = j
    <3>1. PICK k \in 1..Len(stmts) : f[k] = j
      BY <1>1 DEF TakenBy
    <3> QED BY <1>1, <1>2, <3>1 DEF TakenBy
  <2> HIDE DEF said, at
  <2> QED BY <2>1, <2>2
<1>4. Setting(stmts, word, default) = IF at = {} THEN default ELSE stmts[Max(at)].arg
  BY DEF Setting
<1>5. CASE said = {}
  <2> HIDE DEF said, at
  <2>1. Setting(stmts, word, default) = default
    BY <1>3, <1>4, <1>5
  <2> QED BY <1>5, <2>1 DEF said, LastAmong
<1>6. CASE said # {}
  <2>1. Max(at) \in at /\ \A k \in at : k <= Max(at)
    <3>1. at \in SUBSET (0..Len(stmts)) /\ at # {}
      BY <1>2, <1>3, <1>6
    <3> HIDE DEF at
    <3> QED BY <1>2, <3>1, MaxUpTo
  <2> DEFINE last == f[Max(at)]
  <2>2. last \in said /\ stmts[Max(at)] = text.lines[last]
    BY <1>1, <1>2, <2>1 DEF TakenBy
  <2>3. \A j \in said : Outranks(text, last, j)
    <3> SUFFICES ASSUME NEW j \in said PROVE Outranks(text, last, j)
      OBVIOUS
    <3>1. PICK k \in 1..Len(stmts) : f[k] = j
      BY <1>1 DEF TakenBy
    <3>2. k \in at /\ k <= Max(at) /\ Max(at) \in 1..Len(stmts)
      BY <1>1, <1>2, <2>1, <3>1 DEF TakenBy
    <3> QED BY <1>1, <3>1, <3>2 DEF TakenBy
  <2> HIDE DEF last
  <2>4. top \in said /\ \A j \in said : Outranks(text, top, j)
    <3> HIDE DEF said
    <3> QED BY <2>2, <2>3
  <2> HIDE DEF top
  <2>5. /\ Outranks(text, top, last) /\ Outranks(text, last, top)
        /\ top \in J /\ last \in J
    BY <2>2, <2>3, <2>4
  <2>6. top = last
    <3>1. /\ top \in Nat /\ last \in Nat
          /\ Rank(text, SectionOf(text, top)) \in Nat /\ Rank(text, SectionOf(text, last)) \in Nat
      BY <2>5
    <3> QED BY <2>5, <3>1 DEF Outranks
  <2>7. Setting(stmts, word, default) = stmts[Max(at)].arg
    <3> HIDE DEF said, at
    <3> QED BY <1>3, <1>4, <1>6
  <2> QED BY <1>6, <2>2, <2>6, <2>7 DEF top, LastAmong
<1> QED BY <1>5, <1>6

-----------------------------------------------------------------------------
(***************************************************************************)
(* What has been read of a text after so many lines.                       *)
(***************************************************************************)
IsSaid(text, j) == text.lines[j].word \notin {"section", "server"} /\ text.lines[j].ok

Filed(text, i, s) == {j \in 1..i : IsSaid(text, j) /\ SectionOf(text, j) = s}

FirstHead(text, s) == Min(WholeHeaders(text, s))

SectionSo(text, i, read) ==
    read.section # None => Under(text, i) /\ read.section = SectionOf(text, i)

DeclaredSo(text, i, read) ==
    \A s \in Sections :
        s \in DOMAIN read.of <=> s = "global" \/ \E h \in 1..i : Heads(text, h, s)

OrderSo(text, i, read) ==
    /\ \A g \in Groups : g \in DOMAIN read.of <=> \E k \in DOMAIN read.order : read.order[k] = g
    /\ \A k, l \in DOMAIN read.order :
          k < l => FirstHead(text, read.order[k]) < FirstHead(text, read.order[l])

FiledSo(text, i, read) ==
    \A s \in DOMAIN read.of : Collected(text, read.of[s], Filed(text, i, s))

HeadedSo(text, i) == \A j \in 1..i : Under(text, j)

ReadSo(text, i, read) ==
    /\ SectionSo(text, i, read) /\ DeclaredSo(text, i, read) /\ OrderSo(text, i, read)
    /\ FiledSo(text, i, read) /\ HeadedSo(text, i)

(* A text and a line of it that is read.                                   *)
Reading(text, i) ==
    /\ IsText(text) /\ i \in Nat /\ i + 1 \in Whole(text)
    /\ text.lines[i + 1] \in Lines
    /\ \A j \in 1..(i + 1) : j \in Whole(text)
    /\ Whole(text) \subseteq Nat

LEMMA GroupNames == \A g \in Groups : g # "global" /\ g # "user"
<1> SUFFICES ASSUME NEW g \in Groups, g = "global" \/ g = "user" PROVE FALSE
  OBVIOUS
<1>1. g \in {"global", "user"} \cap Groups
  OBVIOUS
<1>2. {"global", "user"} \cap Groups = {}
  BY ConfigAssumption
<1> QED BY <1>1, <1>2

LEMMA ReadNothing == ASSUME NEW text PROVE ReadSo(text, 0, NothingRead)
<1>1. 1..0 = {}
  OBVIOUS
<1>2. /\ NothingRead.section = None /\ NothingRead.order = <<>>
      /\ DOMAIN NothingRead.of = {"global"} /\ NothingRead.of["global"] = <<>>
  BY DEF NothingRead
<1>3. SectionSo(text, 0, NothingRead)
  BY <1>2 DEF SectionSo
<1>4. DeclaredSo(text, 0, NothingRead)
  BY <1>1, <1>2 DEF DeclaredSo
<1>5. OrderSo(text, 0, NothingRead)
  <2>1. DOMAIN NothingRead.order = {}
    BY <1>2
  <2>2. "global" \notin Groups
    BY GroupNames
  <2> QED BY <1>2, <2>1, <2>2 DEF OrderSo
<1>6. FiledSo(text, 0, NothingRead)
  <2>1. \A s : Filed(text, 0, s) = {}
    BY <1>1 DEF Filed
  <2> QED BY <1>2, <2>1, CollectedNone DEF FiledSo
<1>7. HeadedSo(text, 0)
  BY <1>1 DEF HeadedSo
<1> QED BY <1>3, <1>4, <1>5, <1>6, <1>7 DEF ReadSo

(* The first header of a group is where the group is first seen.           *)
LEMMA FirstHeads ==
    ASSUME NEW text, NEW i, Reading(text, i), NEW s
    PROVE  /\ (\E h \in 1..i : Heads(text, h, s)) =>
                 FirstHead(text, s) \in Nat /\ FirstHead(text, s) <= i
           /\ Heads(text, i + 1, s) /\ ~(\E h \in 1..i : Heads(text, h, s)) =>
                 FirstHead(text, s) = i + 1
<1>1. /\ i \in Nat /\ WholeHeaders(text, s) \subseteq Nat
      /\ \A h \in 1..(i + 1) : h \in WholeHeaders(text, s) <=> Heads(text, h, s)
      /\ \A h \in WholeHeaders(text, s) : h # 0 /\ (h <= i + 1 => h \in 1..(i + 1))
  BY WholeRead DEF Reading, WholeHeaders, Heads, IsHeader
<1>2. ASSUME WholeHeaders(text, s) # {}
      PROVE  FirstHead(text, s) \in WholeHeaders(text, s)
             /\ \A h \in WholeHeaders(text, s) : FirstHead(text, s) <= h
  <2>1. PICK x \in WholeHeaders(text, s) : \A y \in WholeHeaders(text, s) : x <= y
    BY <1>1, <1>2, LeastNat
  <2> QED BY <2>1 DEF FirstHead, Min
<1>3. ASSUME NEW h \in 1..i, Heads(text, h, s)
      PROVE  FirstHead(text, s) \in Nat /\ FirstHead(text, s) <= i
  <2>1. h \in WholeHeaders(text, s) /\ h <= i /\ h \in Nat
    BY <1>1, <1>3
  <2>2. FirstHead(text, s) \in Nat /\ FirstHead(text, s) <= h
    BY <1>1, <1>2, <2>1
  <2> QED BY <1>1, <2>1, <2>2
<1>4. ASSUME Heads(text, i + 1, s), ~(\E h \in 1..i : Heads(text, h, s))
      PROVE  FirstHead(text, s) = i + 1
  <2>1. i + 1 \in WholeHeaders(text, s)
    BY <1>1, <1>4
  <2>2. FirstHead(text, s) \in WholeHeaders(text, s) /\ FirstHead(text, s) <= i + 1
    BY <1>2, <2>1
  <2>3. FirstHead(text, s) \in 1..(i + 1) /\ FirstHead(text, s) \notin 1..i
    BY <1>1, <1>4, <2>2
  <2> QED BY <1>1, <2>3
<1> QED BY <1>3, <1>4

(* What a line files.                                                      *)
LEMMA FiledMore ==
    ASSUME NEW text, NEW i \in Nat, NEW s
    PROVE  Filed(text, i + 1, s) =
              IF IsSaid(text, i + 1) /\ SectionOf(text, i + 1) = s
              THEN Filed(text, i, s) \cup {i + 1} ELSE Filed(text, i, s)
BY DEF Filed

LEMMA HeadedMore ==
    ASSUME NEW text, NEW i \in Nat, HeadedSo(text, i), IsHeader(text, i + 1) \/ Under(text, i)
    PROVE  HeadedSo(text, i + 1) /\ Under(text, i + 1)
<1>1. i + 1 \in 1..(i + 1) /\ \A j \in 1..i : j \in 1..(i + 1)
  OBVIOUS
<1>2. Under(text, i + 1)
  BY <1>1 DEF Under
<1>3. \A j \in 1..(i + 1) : j \in 1..i \/ j = i + 1
  OBVIOUS
<1> QED BY <1>2, <1>3 DEF HeadedSo

(* The parser opens a section.                                             *)
LEMMA ReadHeader ==
    ASSUME NEW text, NEW i, Reading(text, i), NEW read \in Reads, read # None,
           ReadSo(text, i, read), IsHeader(text, i + 1)
    PROVE  ReadSo(text, i + 1, Opened(read, text.lines[i + 1].arg))
<1> DEFINE s == text.lines[i + 1].arg
           next == Opened(read, s)
<1>1. /\ i \in Nat /\ s \in Sections /\ ~IsSaid(text, i + 1)
      /\ read.of \in Collections /\ read.order \in Seq(Groups)
  BY LineTyped DEF Reading, IsHeader, IsSaid, Reads
<1>2. /\ DOMAIN next.of = DOMAIN read.of \cup {s}
      /\ \A t \in DOMAIN read.of : next.of[t] = read.of[t]
      /\ s \notin DOMAIN read.of => next.of[s] = <<>>
      /\ next.order = IF s \in Groups \ DOMAIN read.of THEN Append(read.order, s) ELSE read.order
      /\ next.section = s
  BY DEF Opened
<1>3. /\ \A t : Heads(text, i + 1, t) <=> t = s
      /\ \A j : j \in 1..(i + 1) <=> j \in 1..i \/ j = i + 1
  BY <1>1 DEF Heads
<1> HIDE DEF next
<1>4. HeadedSo(text, i + 1) /\ Under(text, i + 1)
  BY <1>1, HeadedMore DEF ReadSo
<1>5. SectionSo(text, i + 1, next)
  BY <1>1, <1>2, <1>4, SectionSteps DEF SectionSo
<1> HIDE DEF s
<1>6. DeclaredSo(text, i + 1, next)
  BY <1>2, <1>3 DEF DeclaredSo, ReadSo
<1>7. OrderSo(text, i + 1, next)
  <2>1. CASE s \in Groups \ DOMAIN read.of
    <3>1. /\ next.order = Append(read.order, s) /\ Len(read.order) \in Nat
          /\ DOMAIN next.order = 1..(Len(read.order) + 1) /\ DOMAIN read.order = 1..Len(read.order)
          /\ next.order[Len(read.order) + 1] = s
          /\ \A k \in 1..Len(read.order) : next.order[k] = read.order[k]
      BY <1>1, <1>2, <2>1
    <3>2. FirstHead(text, s) = i + 1
      BY <1>1, <1>3, <2>1, FirstHeads DEF ReadSo, DeclaredSo
    <3>3. ASSUME NEW k \in 1..Len(read.order)
          PROVE  FirstHead(text, read.order[k]) \in Nat /\ FirstHead(text, read.order[k]) <= i
      <4>1. read.order[k] \in Groups /\ read.order[k] # "global"
        BY <1>1, GroupNames
      <4>2. read.order[k] \in DOMAIN read.of
        BY <3>1, <4>1 DEF ReadSo, OrderSo
      <4>3. \E h \in 1..i : Heads(text, h, read.order[k])
        BY <4>1, <4>2 DEF ReadSo, DeclaredSo, Sections
      <4> QED BY <4>3, FirstHeads
    <3>4. ASSUME NEW k \in DOMAIN next.order, NEW l \in DOMAIN next.order, k < l
          PROVE  FirstHead(text, next.order[k]) < FirstHead(text, next.order[l])
      <4>1. CASE l \in 1..Len(read.order)
        <5>1. k \in 1..Len(read.order)
          BY <3>1, <3>4, <4>1
        <5> QED BY <3>1, <3>4, <4>1, <5>1 DEF ReadSo, OrderSo
      <4>2. CASE l = Len(read.order) + 1
        <5>1. k \in 1..Len(read.order)
          BY <3>1, <3>4, <4>2
        <5> QED BY <1>1, <3>1, <3>2, <3>3, <4>2, <5>1
      <4> QED BY <3>1, <4>1, <4>2
    <3>5. \A g \in Groups : g \in DOMAIN next.of <=> \E k \in DOMAIN next.order : next.order[k] = g
      <4> SUFFICES ASSUME NEW g \in Groups
                   PROVE  g \in DOMAIN next.of <=> \E k \in DOMAIN next.order : next.order[k] = g
        OBVIOUS
      <4>1. g \in DOMAIN read.of <=> \E k \in DOMAIN read.order : read.order[k] = g
        BY DEF ReadSo, OrderSo
      <4>2. (\E k \in DOMAIN next.order : next.order[k] = g)
               <=> g = s \/ \E k \in DOMAIN read.order : read.order[k] = g
        BY <3>1
      <4> QED BY <1>2, <4>1, <4>2
    <3> QED BY <3>4, <3>5 DEF OrderSo
  <2>2. CASE s \notin Groups \ DOMAIN read.of
    <3>1. next.order = read.order /\ \A g \in Groups : g \in DOMAIN next.of <=> g \in DOMAIN read.of
      BY <1>2, <2>2
    <3> QED BY <3>1 DEF ReadSo, OrderSo
  <2> QED BY <2>1, <2>2
<1>8. FiledSo(text, i + 1, next)
  <2> SUFFICES ASSUME NEW t \in DOMAIN next.of PROVE Collected(text, next.of[t], Filed(text, i + 1, t))
    BY DEF FiledSo
  <2>1. Filed(text, i + 1, t) = Filed(text, i, t)
    BY <1>1, FiledMore
  <2>2. CASE t \in DOMAIN read.of
    BY <1>2, <2>1, <2>2 DEF ReadSo, FiledSo
  <2>3. CASE t \notin DOMAIN read.of
    <3>1. t = s /\ next.of[t] = <<>>
      BY <1>2, <2>3
    <3>2. Filed(text, i, t) = {}
      <4> SUFFICES ASSUME NEW j \in 1..i, SectionOf(text, j) = t PROVE FALSE
        BY DEF Filed
      <4>1. j \in Nat /\ Under(text, j)
        BY DEF ReadSo, HeadedSo
      <4>2. \E h \in 1..j : Heads(text, h, t)
        BY <4>1, SectionSteps
      <4>3. \E h \in 1..i : Heads(text, h, t)
        BY <1>1, <4>2
      <4> QED BY <1>1, <2>3, <3>1, <4>3 DEF ReadSo, DeclaredSo
    <3> QED BY <2>1, <3>1, <3>2, CollectedNone
  <2> QED BY <2>2, <2>3
<1> QED BY <1>4, <1>5, <1>6, <1>7, <1>8 DEF ReadSo, next, s

(* The parser takes a statement, or drops it.                              *)
LEMMA ReadStatement ==
    ASSUME NEW text, NEW i, Reading(text, i), NEW read \in Reads, read # None,
           ReadSo(text, i, read), ~IsHeader(text, i + 1), read.section # None
    PROVE  ReadSo(text, i + 1, Said(read, text.lines[i + 1]))
<1> DEFINE st == text.lines[i + 1]
           next == Said(read, st)
           s == SectionOf(text, i)
<1>1. /\ i \in Nat /\ st \in Statements
      /\ read.of \in Collections
      /\ read = [of |-> read.of, order |-> read.order, section |-> read.section]
  BY LineTyped DEF Reading, IsHeader, Reads
<1>2. Under(text, i) /\ read.section = s
  BY DEF ReadSo, SectionSo
<1>3. SectionOf(text, i + 1) = s
  BY <1>1, SectionSteps
<1>4. HeadedSo(text, i + 1) /\ Under(text, i + 1)
  BY <1>1, <1>2, HeadedMore DEF ReadSo
<1>5. s \in DOMAIN read.of
  <2>1. PICK h \in 1..i : Heads(text, h, s)
    BY <1>1, <1>2, SectionSteps
  <2>2. s \in Sections
    BY <1>1, <1>2 DEF Reads
  <2> QED BY <2>1, <2>2 DEF ReadSo, DeclaredSo
<1>6. /\ next.section = read.section /\ next.order = read.order /\ DOMAIN next.of = DOMAIN read.of
      /\ next.of = IF IsSaid(text, i + 1) THEN [read.of EXCEPT ![s] = Append(@, st)] ELSE read.of
  <2>1. st.word # "section"
    BY DEF IsHeader
  <2>2. IsSaid(text, i + 1) <=> st.ok /\ st.word # "server"
    BY <2>1 DEF IsSaid
  <2>3. [read EXCEPT !.of[read.section] = Append(@, st)]
           = [of |-> [read.of EXCEPT ![s] = Append(@, st)], order |-> read.order,
              section |-> read.section]
    BY <1>1, <1>2
  <2> QED BY <1>1, <2>2, <2>3 DEF Said
<1> HIDE DEF next, s, st
<1>7. SectionSo(text, i + 1, next)
  BY <1>2, <1>3, <1>4, <1>6 DEF SectionSo
<1>8. DeclaredSo(text, i + 1, next)
  <2>1. ASSUME NEW t PROVE (\E h \in 1..(i + 1) : Heads(text, h, t)) <=> \E h \in 1..i : Heads(text, h, t)
    <3>1. ~Heads(text, i + 1, t)
      BY DEF Heads
    <3>2. \A j : j \in 1..(i + 1) <=> j \in 1..i \/ j = i + 1
      BY <1>1
    <3> QED BY <3>1, <3>2
  <2> QED BY <1>6, <2>1 DEF ReadSo, DeclaredSo
<1>9. OrderSo(text, i + 1, next)
  BY <1>6 DEF ReadSo, OrderSo
<1>10. FiledSo(text, i + 1, next)
  <2> SUFFICES ASSUME NEW t \in DOMAIN read.of PROVE Collected(text, next.of[t], Filed(text, i + 1, t))
    BY <1>6 DEF FiledSo
  <2>1. Collected(text, read.of[t], Filed(text, i, t))
    BY DEF ReadSo, FiledSo
  <2>2. CASE IsSaid(text, i + 1) /\ t = s
    <3>1. next.of[t] = read.of[t] \o <<st>>
      <4>1. read.of[t] \in Seq(Statements)
        BY <1>1, CollectionTyped
      <4>2. next.of[t] = Append(read.of[t], st)
        BY <1>5, <1>6, <2>2
      <4> QED BY <1>1, <4>1, <4>2
    <3>2. Filed(text, i + 1, t) = Filed(text, i, t) \cup {i + 1}
      BY <1>1, <1>3, <2>2, FiledMore
    <3>3. \A j \in Filed(text, i, t) : Outranks(text, i + 1, j)
      <4> SUFFICES ASSUME NEW j \in Filed(text, i, t) PROVE Outranks(text, i + 1, j)
        OBVIOUS
      <4>1. SectionOf(text, j) = s /\ j \in 1..i
        BY <2>2 DEF Filed
      <4>2. i + 1 >= j
        BY <1>1, <4>1
      <4> QED BY <1>3, <4>1, <4>2 DEF Outranks
    <3>4. Collected(text, <<st>>, {i + 1})
      <4>1. i + 1 \in Nat
        BY <1>1
      <4> QED BY <1>1, <4>1, CollectedOne DEF st
    <3> QED BY <2>1, <3>1, <3>2, <3>3, <3>4, CollectedJoined
  <2>3. CASE ~(IsSaid(text, i + 1) /\ t = s)
    <3>1. next.of[t] = read.of[t]
      BY <1>6, <2>3
    <3>2. Filed(text, i + 1, t) = Filed(text, i, t)
      BY <1>1, <1>3, <2>3, FiledMore
    <3> QED BY <2>1, <3>1, <3>2
  <2> QED BY <2>2, <2>3
<1> QED BY <1>4, <1>7, <1>8, <1>9, <1>10 DEF ReadSo, next, st

-----------------------------------------------------------------------------
(***************************************************************************)
(* What ParseConfig makes of a text.                                       *)
(***************************************************************************)
Length(text) == Len(Read(text))

ParsedSo(text, conf) ==
    /\ conf.of \in Collections /\ conf.order \in Seq(Groups)
    /\ DeclaredSo(text, Length(text), conf) /\ OrderSo(text, Length(text), conf)
    /\ FiledSo(text, Length(text), conf) /\ HeadedSo(text, Length(text))

LEMMA ReadAlways ==
    ASSUME NEW text, IsText(text), NEW r, Steps(Read(text), r)
    PROVE  \A i \in 0..Length(text) : r[i] # None => ReadSo(text, i, r[i])
<1> DEFINE n == Length(text)
           S == {i \in 0..n : r[i] # None => ReadSo(text, i, r[i])}
<1>1. /\ n \in Nat /\ r \in [0..n -> Reads] /\ Whole(text) = 1..n
      /\ \A i \in 1..n : Read(text)[i] = text.lines[i] /\ text.lines[i] \in Lines
  BY WholeRead DEF Steps, Length
<1> HIDE DEF n
<1>2. 0 \in S
  BY <1>1, ReadNothing DEF Steps
<1>3. \A i \in 0..(n - 1) : i \in S => i + 1 \in S
  <2> SUFFICES ASSUME NEW i \in 0..(n - 1), i \in S, r[i + 1] # None
               PROVE  ReadSo(text, i + 1, r[i + 1])
    BY <1>1
  <2> DEFINE line == text.lines[i + 1]
  <2>1. i \in Nat /\ i \in 0..n /\ i + 1 \in 1..n /\ r[i] \in Reads
    BY <1>1
  <2>2. Reading(text, i)
    BY <1>1, <2>1 DEF Reading
  <2>3. r[i + 1] = ParseLine(r[i], line)
    BY <1>1, <2>1 DEF Steps, n, Length
  <2>4. r[i] # None /\ ~Refused(r[i], line)
    BY <2>3 DEF ParseLine
  <2>5. ReadSo(text, i, r[i])
    BY <2>4
  <2>6. CASE line.word = "section"
    <3>1. r[i + 1] = Opened(r[i], line.arg)
      BY <2>3, <2>4, <2>6 DEF ParseLine
    <3> QED BY <2>1, <2>2, <2>4, <2>5, <2>6, <3>1, ReadHeader DEF IsHeader
  <2>7. CASE line.word # "section"
    <3>1. r[i + 1] = Said(r[i], line) /\ r[i].section # None
      BY <2>3, <2>4, <2>7 DEF ParseLine, Refused
    <3> QED BY <2>1, <2>2, <2>4, <2>5, <2>7, <3>1, ReadStatement DEF IsHeader
  <2> QED BY <2>6, <2>7
<1> HIDE DEF S
<1>4. 0..n \subseteq S
  BY <1>1, <1>2, <1>3, UpTo
<1> QED BY <1>4 DEF S, n

LEMMA ParsedLines ==
    ASSUME NEW text, IsText(text), ParseConfig(text) # None
    PROVE  ParsedSo(text, ParseConfig(text))
<1> DEFINE n == Length(text)
           read == FoldLeft(ParseLine, NothingRead, Read(text))
<1>1. Read(text) \in Seq(Lines) /\ n \in Nat
  BY WholeRead DEF Length
<1>2. PICK r : Steps(Read(text), r)
  BY <1>1, LineByLine
<1>3. r[n] = read /\ n \in 0..n /\ read \in Reads
  BY <1>1, <1>2 DEF Steps, Length
<1>4. read # None /\ ParseConfig(text) = [of |-> read.of, order |-> read.order]
  BY DEF ParseConfig
<1> HIDE DEF n, read
<1>5. ReadSo(text, n, read)
  BY <1>2, <1>3, <1>4, ReadAlways DEF n
<1>6. read.of \in Collections /\ read.order \in Seq(Groups)
  BY <1>3, <1>4 DEF Reads
<1>7. ParseConfig(text).of = read.of /\ ParseConfig(text).order = read.order
  BY <1>4
<1> QED BY <1>5, <1>6, <1>7 DEF ParsedSo, ReadSo, DeclaredSo, OrderSo, FiledSo, n

(* The headers of a section are lines that are whole.                      *)
LEMMA HeadersWhole ==
    ASSUME NEW text, IsText(text), NEW s
    PROVE  /\ Length(text) \in Nat /\ Length(text) <= Len(text.lines) /\ Len(text.lines) \in Nat
           /\ Whole(text) = 1..Length(text)
           /\ WholeHeaders(text, s) \subseteq 1..Length(text)
           /\ WholeHeaders(text, s) # {} <=> \E h \in 1..Length(text) : Heads(text, h, s)
           /\ WholeHeaders(text, s) # {} =>
                 FirstHead(text, s) \in Nat /\ FirstHead(text, s) # 0
                 /\ FirstHead(text, s) <= Len(text.lines)
<1>1. /\ Length(text) \in Nat /\ Length(text) <= Len(text.lines) /\ Len(text.lines) \in Nat
      /\ Whole(text) = 1..Length(text)
  BY WholeRead DEF Length
<1>2. WholeHeaders(text, s) = {h \in 1..Length(text) : Heads(text, h, s)}
  BY <1>1 DEF WholeHeaders, Heads, IsHeader
<1>3. ASSUME WholeHeaders(text, s) # {}
      PROVE  FirstHead(text, s) \in 1..Length(text)
  <2>1. WholeHeaders(text, s) \in SUBSET (0..Length(text))
    BY <1>2
  <2>2. FirstHead(text, s) \in WholeHeaders(text, s)
    BY <1>1, <1>3, <2>1, MinUpTo DEF FirstHead
  <2> QED BY <1>2, <2>2
<1> QED BY <1>1, <1>2, <1>3

LEMMA ParsedSections ==
    ASSUME NEW text, IsText(text), NEW conf, ParsedSo(text, conf)
    PROVE  /\ "global" \in DOMAIN conf.of
           /\ DOMAIN conf.of \subseteq Sections
           /\ \A s \in DOMAIN conf.of : conf.of[s] \in Seq(Statements)
           /\ \A s \in {"user"} \cup Groups : s \in DOMAIN conf.of <=> WholeHeaders(text, s) # {}
<1>1. DOMAIN conf.of \subseteq Sections /\ \A s \in DOMAIN conf.of : conf.of[s] \in Seq(Statements)
  BY CollectionTyped DEF ParsedSo
<1>2. "global" \in DOMAIN conf.of
  BY DEF ParsedSo, DeclaredSo, Sections
<1>3. ASSUME NEW s \in {"user"} \cup Groups PROVE s \in DOMAIN conf.of <=> WholeHeaders(text, s) # {}
  <2>1. s \in Sections /\ s # "global"
    BY GroupNames DEF Sections
  <2> QED BY <2>1, HeadersWhole DEF ParsedSo, DeclaredSo
<1> QED BY <1>1, <1>2, <1>3

LEMMA ParsedTyped ==
    ASSUME NEW text, IsText(text), NEW conf, ParsedSo(text, conf) PROVE IsConf(conf)
<1>1. conf.order \in Seq(Groups) /\ OrderSo(text, Length(text), conf)
  BY DEF ParsedSo
<1>2. ToSet(conf.order) = Groups \cap DOMAIN conf.of
  <2>1. \A k \in DOMAIN conf.order : conf.order[k] \in Groups
    BY <1>1
  <2> QED BY <1>1, <2>1 DEF OrderSo, ToSet
<1>3. IsInjective(conf.order)
  <2> SUFFICES ASSUME NEW k \in DOMAIN conf.order, NEW l \in DOMAIN conf.order,
                      conf.order[k] = conf.order[l], k # l
               PROVE  FALSE
    BY DEF IsInjective
  <2> DEFINE g == conf.order[k]
  <2>1. k \in Nat /\ l \in Nat /\ g \in Groups
    BY <1>1
  <2>2. g \in DOMAIN conf.of
    BY <1>1, <2>1 DEF OrderSo
  <2>3. FirstHead(text, g) \in Nat
    BY <2>1, <2>2, ParsedSections, HeadersWhole
  <2>4. FirstHead(text, g) < FirstHead(text, g)
    <3>1. CASE k < l
      BY <1>1, <3>1 DEF OrderSo
    <3>2. CASE l < k
      BY <1>1, <3>2 DEF OrderSo
    <3> QED BY <2>1, <3>1, <3>2
  <2> QED BY <2>3, <2>4
<1> QED BY <1>2, <1>3, ParsedSections DEF IsConf

-----------------------------------------------------------------------------
(***************************************************************************)
(* The statements that apply.                                              *)
(***************************************************************************)
With(conf, gs, stmts, g) == IF g \in gs THEN stmts \o conf.of[g] ELSE stmts

GroupByGroup(conf, gs, r) ==
    /\ r \in [0..Len(conf.order) -> Seq(Statements)]
    /\ r[0] = conf.of["global"]
    /\ \A k \in 0..(Len(conf.order) - 1) : r[k + 1] = With(conf, gs, r[k], conf.order[k + 1])
    /\ Applying(conf, gs) = IF "user" \in DOMAIN conf.of
                            THEN r[Len(conf.order)] \o conf.of["user"] ELSE r[Len(conf.order)]

LEMMA AppliesGroupByGroup ==
    ASSUME NEW conf, conf.order \in Seq(Groups), NEW gs,
           conf.of["global"] \in Seq(Statements),
           \A k \in 1..Len(conf.order) : conf.of[conf.order[k]] \in Seq(Statements)
    PROVE  \E r : GroupByGroup(conf, gs, r)
<1> DEFINE D == Seq(Statements)
           n == Len(conf.order)
           base == conf.of["global"]
           step == [kx \in (1..n) \X D |-> With(conf, gs, kx[2], conf.order[kx[1]])]
           g == CHOOSE h : h = [s \in SUBSET DOMAIN conf.order |->
                    IF s = {} THEN conf.of["global"]
                    ELSE IF conf.order[Max(s)] \in gs
                         THEN h[s \ {Max(s)}] \o conf.of[conf.order[Max(s)]]
                         ELSE h[s \ {Max(s)}]]
<1>1. n \in Nat /\ DOMAIN conf.order = 1..n
  OBVIOUS
<1>2. Applying(conf, gs) = IF "user" \in DOMAIN conf.of
                           THEN g[DOMAIN conf.order] \o conf.of["user"] ELSE g[DOMAIN conf.order]
  BY DEF Applying, FoldLeft, MapThenFoldSet
<1>3. \A k \in 1..n, x \in D : With(conf, gs, x, conf.order[k]) \in D
  BY DEF With
<1> HIDE DEF n, D
<1>4. step \in [(1..n) \X D -> D]
  BY <1>3
<1>5. \A k \in 1..n, x \in D : step[<<k, x>>] = With(conf, gs, x, conf.order[k])
  OBVIOUS
<1>6. base \in D
  BY DEF D
<1> HIDE DEF step
<1>7. ASSUME NEW s \in SUBSET (1..n), s # {}
      PROVE  Max(s) \in 1..n /\ s \ {Max(s)} \in SUBSET (1..n)
  <2>1. s \in SUBSET (1..(n + 1))
    BY <1>1
  <2> QED BY <1>1, <1>7, <2>1, MaxSplits
<1>8. \E t : t = [s \in SUBSET (1..n) |->
                 IF s = {} THEN base ELSE With(conf, gs, t[s \ {Max(s)}], conf.order[Max(s)])]
  <2>1. PICK t : Table(D, base, step, n, t)
    BY <1>1, <1>4, <1>6, TableExists
  <2>2. t = [s \in SUBSET (1..n) |-> t[s]] /\ t[{}] = base
    BY <2>1 DEF Table
  <2>3. ASSUME NEW s \in SUBSET (1..n), s # {}
        PROVE  t[s] = With(conf, gs, t[s \ {Max(s)}], conf.order[Max(s)])
    <3>1. t[s \ {Max(s)}] \in D /\ Max(s) \in 1..n
      BY <1>7, <2>1, <2>3 DEF Table
    <3> QED BY <1>5, <2>1, <2>3, <3>1 DEF Table
  <2> QED BY <2>2, <2>3
<1>9. g = [s \in SUBSET (1..n) |->
              IF s = {} THEN base ELSE With(conf, gs, g[s \ {Max(s)}], conf.order[Max(s)])]
  BY <1>1, <1>8 DEF With
<1> HIDE DEF g, base
<1>10. g[{}] = base
  BY <1>9
<1>11. ASSUME NEW s \in SUBSET (1..n), s # {} /\ g[s \ {Max(s)}] \in D
       PROVE  g[s] = step[<<Max(s), g[s \ {Max(s)}]>>]
  BY <1>5, <1>7, <1>9, <1>11
<1>12. PICK r \in [0..n -> D] : Along(base, step, n, g[1..n], r)
  BY <1>1, <1>4, <1>6, <1>10, <1>11, FoldAlong
<1>13. ASSUME NEW k \in 0..(n - 1) PROVE r[k + 1] = With(conf, gs, r[k], conf.order[k + 1])
  <2>1. k + 1 \in 1..n /\ k \in 0..n
    BY <1>1
  <2>2. r[k] \in D
    BY <2>1
  <2> QED BY <1>5, <1>12, <2>1, <2>2 DEF Along
<1>14. r[n] = g[DOMAIN conf.order] /\ r[0] = base
  BY <1>1, <1>12 DEF Along
<1> QED BY <1>2, <1>12, <1>13, <1>14 DEF GroupByGroup, n, D, base

(* A header without newline heads nothing.                                 *)
LEMMA HeadersSame ==
    ASSUME NEW text, IsText(text), NEW s, WholeHeaders(text, s) # {}
    PROVE  Min(Headers(text, s)) = Min(WholeHeaders(text, s))
<1> DEFINE n == Len(text.lines)
           H == Headers(text, s)
           W == WholeHeaders(text, s)
<1>1. n \in Nat /\ DOMAIN text.lines = 1..n /\ W \in SUBSET (0..n) /\ H \in SUBSET (0..n)
  BY DEF IsText, WholeHeaders, Whole, Headers
<1>2. W \subseteq H /\ \A i \in H : i \in W \/ i = n
  BY <1>1 DEF WholeHeaders, Whole, Headers
<1>3. \A i \in W : i <= n
  BY <1>1
<1> HIDE DEF H, W, n
<1>4. Min(W) \in W /\ \A i \in W : Min(W) <= i
  BY <1>1, MinUpTo DEF W
<1>5. Min(W) \in H /\ \A i \in H : Min(W) <= i
  BY <1>2, <1>3, <1>4
<1>6. Min(H) \in H /\ \A i \in H : Min(H) <= i
  BY <1>1, <1>5, MinUpTo
<1>7. Min(W) \in Nat /\ Min(H) \in Nat
  <2>1. W \subseteq Nat /\ H \subseteq Nat
    BY <1>1
  <2> QED BY <1>4, <1>6, <2>1
<1>8. Min(H) = Min(W)
  BY <1>4, <1>5, <1>6, <1>7
<1> QED BY <1>8 DEF H, W

(* Who has the last word.                                                  *)
LEMMA Ranks ==
    ASSUME NEW text, IsText(text)
    PROVE  /\ Rank(text, "global") = 0 /\ Rank(text, "user") = Len(text.lines) + 1
           /\ \A g \in Groups :
                 WholeHeaders(text, g) # {} => Rank(text, g) = FirstHead(text, g)
<1>1. /\ Rank(text, "global") = 0 /\ Rank(text, "user") = Len(text.lines) + 1
      /\ \A g \in Groups : Rank(text, g) = Min(Headers(text, g))
  BY GroupNames DEF Rank
<1>2. ASSUME NEW g \in Groups, WholeHeaders(text, g) # {}
      PROVE  Min(Headers(text, g)) = FirstHead(text, g)
  BY <1>2, HeadersSame DEF FirstHead
<1> QED BY <1>1, <1>2

LEMMA RanksTyped ==
    ASSUME NEW text, IsText(text), NEW conf, ParsedSo(text, conf), NEW s \in DOMAIN conf.of
    PROVE  /\ Rank(text, s) \in Nat
           /\ s # "global" => Rank(text, s) > 0
           /\ s # "user" => Rank(text, s) < Len(text.lines) + 1
<1>1. Len(text.lines) \in Nat
  BY HeadersWhole
<1>2. CASE s \in {"global", "user"}
  BY <1>1, <1>2, Ranks
<1>3. CASE s \in Groups
  <2>1. WholeHeaders(text, s) # {}
    BY <1>3, ParsedSections
  <2>2. FirstHead(text, s) \in Nat /\ FirstHead(text, s) # 0 /\ FirstHead(text, s) <= Len(text.lines)
    BY <2>1, HeadersWhole
  <2> QED BY <1>1, <1>3, <2>1, <2>2, Ranks
<1>4. s \in {"global", "user"} \cup Groups
  BY ParsedSections DEF Sections
<1> QED BY <1>2, <1>3, <1>4

(* A line that says something stands in a section that has been declared.  *)
LEMMA SaidInSection ==
    ASSUME NEW text, IsText(text), NEW conf, ParsedSo(text, conf),
           NEW j \in Whole(text)
    PROVE  SectionOf(text, j) \in DOMAIN conf.of
<1>1. /\ j \in 1..Length(text) /\ Length(text) \in Nat /\ j \in Nat
      /\ \A h \in 1..j : h \in 1..Length(text)
  BY HeadersWhole
<1>2. Under(text, j)
  BY <1>1 DEF ParsedSo, HeadedSo
<1>3. PICK h \in 1..j : Heads(text, h, SectionOf(text, j))
  BY <1>1, <1>2, SectionSteps
<1>4. SectionOf(text, j) \in Sections
  <2>1. text.lines[h] \in Lines /\ text.lines[h].word = "section"
    BY <1>1, <1>3, WholeRead DEF Heads, IsHeader, Length
  <2> QED BY <1>3, <2>1, LineTyped DEF Heads
<1> QED BY <1>1, <1>3, <1>4 DEF ParsedSo, DeclaredSo

Stated(text, S) == {j \in Whole(text) : IsSaid(text, j) /\ SectionOf(text, j) \in S}

(* The sections of the groups of gs among the first k declared.            *)
Until(conf, gs, k) == {"global"} \cup (gs \cap {conf.order[m] : m \in 1..k})

(* A section goes behind those of lower rank.                              *)
LEMMA StatedJoined ==
    ASSUME NEW text, IsText(text), NEW conf, ParsedSo(text, conf),
           NEW S \in SUBSET DOMAIN conf.of, NEW t \in DOMAIN conf.of,
           \A s \in S : Rank(text, s) < Rank(text, t),
           NEW stmts, Collected(text, stmts, Stated(text, S))
    PROVE  Collected(text, stmts \o conf.of[t], Stated(text, S \cup {t}))
<1>1. Stated(text, {t}) = Filed(text, Length(text), t)
  BY HeadersWhole DEF Stated, Filed
<1>2. Collected(text, conf.of[t], Stated(text, {t}))
  BY <1>1 DEF ParsedSo, FiledSo
<1>3. Stated(text, S \cup {t}) = Stated(text, S) \cup Stated(text, {t})
  BY DEF Stated
<1>4. ASSUME NEW i \in Stated(text, S), NEW j \in Stated(text, {t}) PROVE Outranks(text, j, i)
  <2>1. SectionOf(text, i) \in S /\ SectionOf(text, j) = t
    BY DEF Stated
  <2>2. /\ Rank(text, SectionOf(text, i)) < Rank(text, t)
        /\ Rank(text, SectionOf(text, i)) \in Nat /\ Rank(text, t) \in Nat
    BY <2>1, RanksTyped
  <2> QED BY <2>1, <2>2 DEF Outranks
<1> QED BY <1>2, <1>3, <1>4, CollectedJoined

LEMMA StatedGroups ==
    ASSUME NEW text, IsText(text), NEW conf, ParsedSo(text, conf), NEW gs \in SUBSET Groups,
           NEW r, GroupByGroup(conf, gs, r)
    PROVE  \A k \in 0..Len(conf.order) : Collected(text, r[k], Stated(text, Until(conf, gs, k)))
<1> DEFINE n == Len(conf.order)
           S == {k \in 0..n : Collected(text, r[k], Stated(text, Until(conf, gs, k)))}
<1>1. /\ n \in Nat /\ conf.order \in Seq(Groups) /\ DOMAIN conf.order = 1..n
      /\ \A k \in 1..n : conf.order[k] \in Groups
      /\ OrderSo(text, Length(text), conf)
  BY DEF ParsedSo
<1>2. 0 \in S
  <2>1. Until(conf, gs, 0) = {"global"}
    <3>1. 1..0 = {}
      OBVIOUS
    <3> QED BY <3>1 DEF Until
  <2>2. Stated(text, {"global"}) = Filed(text, Length(text), "global")
    BY HeadersWhole DEF Stated, Filed
  <2>3. Collected(text, conf.of["global"], Filed(text, Length(text), "global"))
    BY ParsedSections DEF ParsedSo, FiledSo
  <2>4. r[0] = conf.of["global"]
    BY DEF GroupByGroup
  <2>5. Collected(text, r[0], Stated(text, Until(conf, gs, 0)))
    BY <2>1, <2>2, <2>3, <2>4
  <2>6. 0 \in 0..n
    BY <1>1
  <2> QED BY <2>5, <2>6
<1> HIDE DEF n
<1>3. ASSUME NEW k \in 1..n
      PROVE  /\ conf.order[k] \in DOMAIN conf.of /\ conf.order[k] # "global"
             /\ Rank(text, conf.order[k]) = FirstHead(text, conf.order[k])
  BY <1>1, GroupNames, Ranks, ParsedSections DEF OrderSo
<1>4. \A k \in 0..(n - 1) : k \in S => k + 1 \in S
  <2> SUFFICES ASSUME NEW k \in 0..(n - 1), k \in S
               PROVE  Collected(text, r[k + 1], Stated(text, Until(conf, gs, k + 1)))
    BY <1>1
  <2> DEFINE g == conf.order[k + 1]
  <2>1. k + 1 \in 1..n /\ \A m : m \in 1..(k + 1) <=> m \in 1..k \/ m = k + 1
    BY <1>1
  <2>2. r[k + 1] = With(conf, gs, r[k], g)
    BY <2>1 DEF GroupByGroup, n
  <2>3. Until(conf, gs, k + 1) = Until(conf, gs, k) \cup (gs \cap {g})
    BY <2>1 DEF Until
  <2>4. CASE g \notin gs
    BY <2>2, <2>3, <2>4 DEF With
  <2>5. CASE g \in gs
    <3>1. r[k + 1] = r[k] \o conf.of[g]
      BY <2>2, <2>5 DEF With
    <3>2. Until(conf, gs, k + 1) = Until(conf, gs, k) \cup {g}
      BY <2>3, <2>5
    <3>3. ASSUME NEW s \in Until(conf, gs, k)
          PROVE  s \in DOMAIN conf.of /\ Rank(text, s) < Rank(text, g)
      <4>1. CASE s = "global"
        <5>1. Rank(text, g) > 0 /\ Rank(text, g) \in Nat
          BY <1>3, <2>1, RanksTyped
        <5> QED BY <4>1, <5>1, Ranks, ParsedSections
      <4>2. ASSUME NEW m \in 1..k, s = conf.order[m]
            PROVE  s \in DOMAIN conf.of /\ Rank(text, s) < Rank(text, g)
        <5>1. m \in 1..n /\ m < k + 1
          BY <1>1
        <5>2. FirstHead(text, conf.order[m]) < FirstHead(text, conf.order[k + 1])
          BY <1>1, <2>1, <5>1 DEF OrderSo
        <5> QED BY <1>3, <2>1, <4>2, <5>1, <5>2
      <4> QED BY <4>1, <4>2 DEF Until
    <3>4. g \in DOMAIN conf.of /\ Until(conf, gs, k) \in SUBSET DOMAIN conf.of
      BY <1>3, <2>1, <3>3
    <3>5. Collected(text, r[k], Stated(text, Until(conf, gs, k)))
      OBVIOUS
    <3>6. \A s \in Until(conf, gs, k) : Rank(text, s) < Rank(text, g)
      BY <3>3
    <3> HIDE DEF g, S
    <3>7. Collected(text, r[k] \o conf.of[g], Stated(text, Until(conf, gs, k) \cup {g}))
      BY <3>4, <3>5, <3>6, StatedJoined
    <3> QED BY <3>1, <3>2, <3>7
  <2> QED BY <2>4, <2>5
<1> HIDE DEF S
<1>5. 0..n \subseteq S
  BY <1>1, <1>2, <1>4, UpTo
<1> QED BY <1>5 DEF S, n

(* The lines that concern the user and are kept.                           *)
Counting(text, gs) == Concerning(text, gs) \ Lost(text)

LEMMA CountingStated ==
    ASSUME NEW text, IsText(text), NEW gs
    PROVE  Counting(text, gs) = Stated(text, {"global", "user"} \cup gs)
<1>1. Len(text.lines) \in Nat /\ DOMAIN text.lines = 1..Len(text.lines)
  BY DEF IsText
<1> QED BY <1>1 DEF Counting, Concerning, Lost, Stated, IsSaid, Whole

(* The statements that apply to a user are those of the lines that count,  *)
(* the ones with more to say behind the others.                            *)
LEMMA StatementsApply ==
    ASSUME NEW text, IsText(text), NEW conf, ParsedSo(text, conf), NEW gs \in SUBSET Groups
    PROVE  Collected(text, Applying(conf, gs), Counting(text, gs))
<1> DEFINE n == Len(conf.order)
           S == Until(conf, gs, n)
<1>1. /\ n \in Nat /\ conf.order \in Seq(Groups) /\ DOMAIN conf.order = 1..n
      /\ \A k \in 1..n : conf.order[k] \in Groups
      /\ OrderSo(text, Length(text), conf)
  BY DEF ParsedSo
<1>2. PICK r : GroupByGroup(conf, gs, r)
  <2>1. \A k \in 1..n : conf.order[k] \in DOMAIN conf.of
    BY <1>1 DEF OrderSo
  <2>2. \A k \in 1..n : conf.of[conf.order[k]] \in Seq(Statements)
    BY <2>1, ParsedSections
  <2> QED BY <1>1, <2>2, ParsedSections, AppliesGroupByGroup
<1>3. Collected(text, r[n], Stated(text, S))
  <2>1. n \in 0..n
    BY <1>1
  <2> QED BY <1>2, <2>1, StatedGroups
<1>4. S = {"global"} \cup (gs \cap DOMAIN conf.of)
  <2>1. \A g \in Groups : g \in DOMAIN conf.of <=> g \in {conf.order[m] : m \in 1..n}
    BY <1>1 DEF OrderSo
  <2> QED BY <2>1 DEF Until
<1> HIDE DEF n, S
<1>5. \A T : Stated(text, T) = Stated(text, T \cap DOMAIN conf.of)
  BY SaidInSection DEF Stated
<1>6. CASE "user" \in DOMAIN conf.of
  <2>1. Applying(conf, gs) = r[n] \o conf.of["user"]
    BY <1>2, <1>6 DEF GroupByGroup, n
  <2>2. ASSUME NEW s \in S PROVE s \in DOMAIN conf.of /\ Rank(text, s) < Rank(text, "user")
    <3>1. s \in DOMAIN conf.of /\ s # "user"
      BY <1>4, GroupNames, ParsedSections
    <3> QED BY <3>1, Ranks, RanksTyped
  <2>3. Collected(text, Applying(conf, gs), Stated(text, S \cup {"user"}))
    <3>1. S \in SUBSET DOMAIN conf.of
      BY <2>2
    <3> QED BY <1>3, <1>6, <2>1, <2>2, <3>1, StatedJoined
  <2>4. S \cup {"user"} = ({"global", "user"} \cup gs) \cap DOMAIN conf.of
    BY <1>4, <1>6, ParsedSections
  <2> QED BY <1>5, <2>3, <2>4, CountingStated
<1>7. CASE "user" \notin DOMAIN conf.of
  <2>1. Applying(conf, gs) = r[n]
    BY <1>2, <1>7 DEF GroupByGroup, n
  <2>2. S = ({"global", "user"} \cup gs) \cap DOMAIN conf.of
    BY <1>4, <1>7, ParsedSections
  <2> QED BY <1>3, <1>5, <2>1, <2>2, CountingStated
<1> QED BY <1>6, <1>7

-----------------------------------------------------------------------------
(***************************************************************************)
(* The policy.                                                             *)
(***************************************************************************)
LEMMA StatementsSet ==
    ASSUME NEW text, IsText(text), NEW conf, ParsedSo(text, conf), NEW gs \in SUBSET Groups
    PROVE  /\ ToSet(Applying(conf, gs)) = {text.lines[i] : i \in Counting(text, gs)}
           /\ ToSet(Applying(conf, gs)) \subseteq Statements
<1>1. Collected(text, Applying(conf, gs), Counting(text, gs))
  BY StatementsApply
<1>2. Applying(conf, gs) \in Seq(Statements)
  BY <1>1 DEF Collected
<1>3. ToSet(Applying(conf, gs)) = {text.lines[i] : i \in Counting(text, gs)}
  BY <1>1, CollectedSet
<1>4. ASSUME NEW stmts \in Seq(Statements) PROVE ToSet(stmts) \subseteq Statements
  BY DEF ToSet
<1> QED BY <1>2, <1>3, <1>4

(* The setting in force is the last one said.                              *)
LEMMA SettingSaid ==
    ASSUME NEW text, IsText(text), NEW conf, ParsedSo(text, conf), NEW gs \in SUBSET Groups,
           NEW word, NEW default
    PROVE  Setting(Applying(conf, gs), word, default)
             = LastAmong(text, Counting(text, gs), word, default)
<1>1. Collected(text, Applying(conf, gs), Counting(text, gs))
  BY StatementsApply
<1>2. Counting(text, gs) \subseteq Whole(text) /\ Counting(text, gs) \subseteq Nat
  BY HeadersWhole, CountingStated DEF Stated
<1>3. \A j \in Counting(text, gs) : Rank(text, SectionOf(text, j)) \in Nat
  BY <1>2, SaidInSection, RanksTyped
<1> QED BY <1>1, <1>2, <1>3, CollectedLast

LEMMA AccessDeclared ==
    ASSUME NEW text, IsText(text), NEW conf, ParsedSo(text, conf), NEW gs \in SUBSET Groups
    PROVE  HasAccess(conf, gs) <=> \E s \in {"user"} \cup gs : WholeHeaders(text, s) # {}
<1>1. \A s \in {"user"} \cup gs : s \in DOMAIN conf.of <=> WholeHeaders(text, s) # {}
  BY ParsedSections
<1> QED BY <1>1 DEF HasAccess

(***************************************************************************)
(* What the statements of a user grant, and what of that is open.          *)
(***************************************************************************)
Grants == [net : Nets, ports : SUBSET Ports]

OfWordIn(stmts, word) == {st \in stmts : st.word = word}

GrantsOf(stmts, nat) ==
    {Grant(st.arg, st.ports) : st \in OfWordIn(stmts, "route")}
    \cup {Grant(Subnets[st.arg], st.ports) :
            st \in {sn \in OfWordIn(stmts, "subnet") : sn.arg \in DOMAIN Subnets}}
    \cup {Grant(Subnets[n], {}) : n \in {m \in DOMAIN Subnets : OfWordIn(stmts, "subnet") = {}}}
    \cup {Grant(n, {}) : n \in {m \in NAT : nat = "on"}}
    \cup {Grant(st.arg, st.ports) :
            st \in {s \in OfWordIn(stmts, "nat") : nat # "off" /\ s.arg \notin {"on", "off"}}}

Opening(g, n, p) == g.net = n /\ (g.ports = {} \/ {0, p} \cap g.ports # {})

LEMMA GrantTyped ==
    ASSUME NEW n \in Nets, NEW ports \in SUBSET Ports
    PROVE  Grant(n, ports) \in Grants /\ Grant(n, ports).net = n /\ Grant(n, ports).ports = ports
BY DEF Grant, Grants

LEMMA StatementKinds ==
    ASSUME NEW st \in Statements
    PROVE  /\ st.ports \in SUBSET Ports
           /\ st.word = "route" => st.arg \in Nets
           /\ st.word = "nat" => st.arg \in Nets \cup {"on", "off"}
           /\ st.word = "subnet" => st.arg \in Names
           /\ st.word = "dns" => st.arg \in {"on", "off"}
BY DEF Statements

(* The grants, kind by kind.                                               *)
Granting(stmts, nat, g) ==
    \/ \E st \in stmts : /\ g = Grant(st.arg, st.ports)
                         /\ st.word = "route"
    \/ \E st \in stmts : /\ g = Grant(Subnets[st.arg], st.ports)
                         /\ st.word = "subnet" /\ st.arg \in DOMAIN Subnets
    \/ (\A st \in stmts : st.word # "subnet") /\ \E n \in DOMAIN Subnets : g = Grant(Subnets[n], {})
    \/ nat = "on" /\ \E n \in NAT : g = Grant(n, {})
    \/ \E st \in stmts : /\ g = Grant(st.arg, st.ports)
                         /\ st.word = "nat" /\ nat # "off" /\ st.arg \notin {"on", "off"}

LEMMA GrantsGranting ==
    ASSUME NEW stmts, NEW nat, NEW g PROVE g \in GrantsOf(stmts, nat) <=> Granting(stmts, nat, g)
<1>1. OfWordIn(stmts, "subnet") = {} <=> \A st \in stmts : st.word # "subnet"
  BY DEF OfWordIn
<1> QED BY <1>1 DEF GrantsOf, Granting, OfWordIn

LEMMA GrantsTyped ==
    ASSUME NEW stmts \in SUBSET Statements, NEW nat PROVE GrantsOf(stmts, nat) \subseteq Grants
<1> SUFFICES ASSUME NEW g, Granting(stmts, nat, g) PROVE g \in Grants
  BY GrantsGranting
<1>1. \A st \in stmts : st \in Statements
  OBVIOUS
<1>2. /\ \A n \in DOMAIN Subnets : Subnets[n] \in Nets
      /\ NAT \subseteq Nets
  BY ConfigAssumption
<1> QED BY <1>1, <1>2, StatementKinds, GrantTyped DEF Granting

(* What is opened, statement by statement, is what the grants open.        *)
OpenedFor(stmts, nat, n, p) ==
    \/ \E st \in stmts : Opens(st, n, p) /\ (st.word = "nat" => nat # "off")
    \/ nat = "on" /\ n \in NAT
    \/ /\ \A st \in stmts : st.word # "subnet"
       /\ \E m \in DOMAIN Subnets : Subnets[m] = n

LEMMA GrantsOpen ==
    ASSUME NEW stmts \in SUBSET Statements, NEW nat, NEW n \in Nets, NEW p
    PROVE  OpenedFor(stmts, nat, n, p) <=> \E g \in GrantsOf(stmts, nat) : Opening(g, n, p)
<1>1. \A m \in DOMAIN Subnets : Subnets[m] \in Nets
  BY ConfigAssumption
<1>2. NAT \subseteq Nets /\ n \notin {"on", "off"}
  BY ConfigAssumption
<1>3. ASSUME NEW st \in stmts, Opens(st, n, p), st.word = "nat" => nat # "off"
      PROVE  \E g \in GrantsOf(stmts, nat) : Opening(g, n, p)
  <2>1. st \in Statements /\ st.ports \in SUBSET Ports
    BY StatementKinds
  <2> DEFINE g == Grant(n, st.ports)
  <2>2. Opening(g, n, p)
    BY <1>3, <2>1, GrantTyped DEF Opening, Opens, Covers
  <2>3. Granting(stmts, nat, g)
    <3>1. CASE st.word = "route" \/ st.word = "nat"
      BY <1>2, <1>3, <3>1 DEF Opens, Covers, Granting
    <3>2. CASE st.word = "subnet"
      BY <1>3, <3>2 DEF Opens, Covers, Granting
    <3> QED BY <1>3, <3>1, <3>2 DEF Opens, Covers
  <2> HIDE DEF g
  <2> QED BY <2>2, <2>3, GrantsGranting
<1>4. ASSUME \/ nat = "on" /\ n \in NAT
             \/ (\A st \in stmts : st.word # "subnet") /\ \E m \in DOMAIN Subnets : Subnets[m] = n
      PROVE  \E g \in GrantsOf(stmts, nat) : Opening(g, n, p)
  <2> DEFINE g == Grant(n, {})
  <2>1. Opening(g, n, p)
    BY GrantTyped DEF Opening
  <2>2. Granting(stmts, nat, g)
    BY <1>4 DEF Granting
  <2> HIDE DEF g
  <2> QED BY <2>1, <2>2, GrantsGranting
<1>5. ASSUME NEW g \in GrantsOf(stmts, nat), Opening(g, n, p) PROVE OpenedFor(stmts, nat, n, p)
  <2>1. Granting(stmts, nat, g)
    BY GrantsGranting
  <2>2. ASSUME NEW st \in stmts, g = Grant(st.arg, st.ports),
               st.word = "route" \/ (st.word = "nat" /\ nat # "off" /\ st.arg \notin {"on", "off"})
        PROVE  OpenedFor(stmts, nat, n, p)
    <3>1. st \in Statements /\ st.arg \in Nets /\ st.ports \in SUBSET Ports
      BY <2>2, StatementKinds
    <3>2. g.net = st.arg /\ g.ports = st.ports
      BY <2>2, <3>1, GrantTyped
    <3>3. Opens(st, n, p)
      BY <1>5, <2>2, <3>2 DEF Opening, Opens, Covers
    <3> QED BY <2>2, <3>3 DEF OpenedFor
  <2>3. ASSUME NEW st \in stmts, g = Grant(Subnets[st.arg], st.ports),
               st.word = "subnet", st.arg \in DOMAIN Subnets
        PROVE  OpenedFor(stmts, nat, n, p)
    <3>1. st \in Statements /\ Subnets[st.arg] \in Nets /\ st.ports \in SUBSET Ports
      BY <1>1, <2>3, StatementKinds
    <3>2. g.net = Subnets[st.arg] /\ g.ports = st.ports
      BY <2>3, <3>1, GrantTyped
    <3>3. Opens(st, n, p)
      BY <1>5, <2>3, <3>2 DEF Opening, Opens, Covers
    <3> QED BY <2>3, <3>3 DEF OpenedFor
  <2>4. ASSUME NEW m \in Nets, g = Grant(m, {}) PROVE m = n
    BY <1>5, <2>4, GrantTyped DEF Opening
  <2>5. CASE nat = "on" /\ \E m \in NAT : g = Grant(m, {})
    BY <1>2, <2>4, <2>5 DEF OpenedFor
  <2>6. CASE (\A st \in stmts : st.word # "subnet")
             /\ \E m \in DOMAIN Subnets : g = Grant(Subnets[m], {})
    BY <1>1, <2>4, <2>6 DEF OpenedFor
  <2> QED BY <2>1, <2>2, <2>3, <2>5, <2>6 DEF Granting
<1> QED BY <1>3, <1>4, <1>5 DEF OpenedFor

(* The ports of one network add up.                                        *)
LEMMA RoutesTyped ==
    ASSUME NEW grants \in SUBSET Grants
    PROVE  /\ DOMAIN Routes(grants) = {g.net : g \in grants}
           /\ \A n \in DOMAIN Routes(grants) :
                 /\ n \in Nets /\ Routes(grants)[n] \in SUBSET Ports
                 /\ \A p : p \in Routes(grants)[n]
                              <=> \E g \in grants : g.net = n /\ p \in g.ports
           /\ Routes(grants) \in UNION {[ns -> SUBSET Ports] : ns \in SUBSET Nets}
<1> DEFINE R == Routes(grants)
<1>1. DOMAIN R = {g.net : g \in grants}
  BY DEF Routes
<1>2. DOMAIN R \in SUBSET Nets
  BY <1>1 DEF Grants
<1>3. ASSUME NEW n \in DOMAIN R, NEW p
      PROVE  p \in R[n] <=> \E g \in grants : g.net = n /\ p \in g.ports
  BY <1>1 DEF Routes
<1>4. ASSUME NEW n \in DOMAIN R PROVE R[n] \in SUBSET Ports
  BY <1>3, <1>4 DEF Grants
<1>5. R = [n \in DOMAIN R |-> R[n]]
  BY DEF Routes
<1> HIDE DEF R
<1>6. R \in [DOMAIN R -> SUBSET Ports]
  BY <1>4, <1>5
<1>7. R \in UNION {[ns -> SUBSET Ports] : ns \in SUBSET Nets}
  BY <1>2, <1>6
<1> QED BY <1>1, <1>2, <1>3, <1>4, <1>7 DEF R

(* Which ports of a network the rules let through.                         *)
LEMMA RulesReach ==
    ASSUME NEW config, DOMAIN config.routes \in SUBSET Nets,
           \A n \in DOMAIN config.routes : config.routes[n] \in SUBSET Ports
    PROVE  /\ Rules(config) \subseteq Nets \X (Ports \cup {0})
           /\ \A n \in Nets, p \in Ports \ {0} :
                 <<n, p>> \in Reach(Rules(config)) <=>
                    /\ n \in DOMAIN config.routes
                    /\ config.routes[n] = {} \/ {0, p} \cap config.routes[n] # {}
<1> DEFINE Of(m) == IF config.routes[m] = {} THEN {<<m, 0>>} ELSE {m} \X config.routes[m]
<1>0. \A r : r \in Rules(config) <=> \E m \in DOMAIN config.routes : r \in Of(m)
  BY DEF Rules
<1>1. ASSUME NEW n, NEW p
      PROVE  <<n, p>> \in Rules(config) <=>
                /\ n \in DOMAIN config.routes
                /\ (config.routes[n] = {} /\ p = 0) \/ p \in config.routes[n]
  <2>1. \A m \in DOMAIN config.routes :
           <<n, p>> \in Of(m)
             <=> n = m /\ ((config.routes[m] = {} /\ p = 0) \/ p \in config.routes[m])
    OBVIOUS
  <2> HIDE DEF Of
  <2> QED BY <1>0, <2>1
<1>2. ASSUME NEW r \in Rules(config) PROVE r = <<r[1], r[2]>>
  <2>1. PICK m \in DOMAIN config.routes : r \in Of(m)
    BY <1>0
  <2> QED BY <2>1
<1> HIDE DEF Of
<1>3. ASSUME NEW r \in Rules(config) PROVE r \in Nets \X (Ports \cup {0})
  <2>1. r[1] \in Nets /\ r[2] \in Ports \cup {0}
    BY <1>1, <1>2, <1>3
  <2> QED BY <1>2, <2>1
<1>4. ASSUME NEW n \in Nets, NEW p \in Ports \ {0}
      PROVE  <<n, p>> \in Reach(Rules(config)) <=>
                /\ n \in DOMAIN config.routes
                /\ config.routes[n] = {} \/ {0, p} \cap config.routes[n] # {}
  <2>1. <<n, p>> \in Reach(Rules(config))
           <=> <<n, p>> \in Rules(config) \/ <<n, 0>> \in Rules(config)
    BY DEF Reach
  <2> QED BY <1>1, <1>4, <2>1
<1> QED BY <1>3, <1>4

(* What the grants open is what the rules let through, but for the ports   *)
(* of a network that has been given ports.                                 *)
LEMMA RoutesOpen ==
    ASSUME NEW grants \in SUBSET Grants, NEW config, config.routes = Routes(grants),
           NEW n \in Nets, NEW p \in Ports \ {0}
    PROVE  /\ <<n, p>> \in Reach(Rules(config)) => \E g \in grants : Opening(g, n, p)
           /\ (\E g \in grants : Opening(g, n, p)) /\ <<n, p>> \notin Reach(Rules(config)) =>
                 \E g \in grants : g.net = n /\ g.ports # {} /\ {0, p} \cap g.ports = {}
           /\ (\E g \in grants : g.net = n /\ g.ports # {}) /\ <<n, p>> \in Reach(Rules(config)) =>
                 \E g \in grants : g.net = n /\ {0, p} \cap g.ports # {}
<1> DEFINE R == config.routes
<1>1. /\ DOMAIN R = {g.net : g \in grants}
      /\ \A m \in DOMAIN R :
            /\ m \in Nets /\ R[m] \in SUBSET Ports
            /\ \A q : q \in R[m] <=> \E g \in grants : g.net = m /\ q \in g.ports
  BY RoutesTyped
<1>2. <<n, p>> \in Reach(Rules(config))
         <=> n \in DOMAIN R /\ (R[n] = {} \/ {0, p} \cap R[n] # {})
  BY <1>1, RulesReach
<1> HIDE DEF R
<1>3. ASSUME n \in DOMAIN R, R[n] = {} PROVE \E g \in grants : Opening(g, n, p)
  <2>1. PICK g \in grants : g.net = n
    BY <1>1, <1>3
  <2>2. g.ports = {}
    BY <1>1, <1>3, <2>1
  <2> QED BY <2>1, <2>2 DEF Opening
<1>4. ASSUME n \in DOMAIN R, NEW q \in {0, p}, q \in R[n]
      PROVE  \E g \in grants : g.net = n /\ {0, p} \cap g.ports # {}
  <2>1. PICK g \in grants : g.net = n /\ q \in g.ports
    BY <1>1, <1>4
  <2> QED BY <1>4, <2>1
<1>5. ASSUME NEW g \in grants, Opening(g, n, p) PROVE n \in DOMAIN R
  BY <1>1, <1>5 DEF Opening
<1>6. <<n, p>> \in Reach(Rules(config)) => \E g \in grants : Opening(g, n, p)
  BY <1>2, <1>3, <1>4 DEF Opening
<1>7. ASSUME NEW g \in grants, Opening(g, n, p), <<n, p>> \notin Reach(Rules(config))
      PROVE  \E h \in grants : h.net = n /\ h.ports # {} /\ {0, p} \cap h.ports = {}
  <2>1. n \in DOMAIN R /\ R[n] # {} /\ {0, p} \cap R[n] = {}
    BY <1>2, <1>5, <1>7
  <2>2. PICK q : q \in R[n]
    BY <2>1
  <2>3. PICK h \in grants : h.net = n /\ q \in h.ports
    BY <1>1, <2>1, <2>2
  <2>4. \A x \in h.ports : x \in R[n]
    BY <1>1, <2>1, <2>3
  <2> QED BY <2>1, <2>3, <2>4
<1>8. ASSUME NEW g \in grants, g.net = n, g.ports # {}, <<n, p>> \in Reach(Rules(config))
      PROVE  \E h \in grants : h.net = n /\ {0, p} \cap h.ports # {}
  <2>1. n \in DOMAIN R /\ R[n] # {}
    BY <1>1, <1>8
  <2>2. {0, p} \cap R[n] # {}
    BY <1>2, <1>8, <2>1
  <2> QED BY <1>4, <2>1, <2>2
<1> QED BY <1>6, <1>7, <1>8

(* A grant with ports is a statement's, and every statement that stands is *)
(* a grant.                                                                *)
LEMMA GrantsStated ==
    ASSUME NEW stmts \in SUBSET Statements, NEW nat, NEW n \in Nets
    PROVE  /\ \A g \in GrantsOf(stmts, nat) : g.net = n /\ g.ports # {} =>
                 \E st \in stmts : Covers(st, n) /\ st.ports = g.ports
           /\ \A st \in stmts : Covers(st, n) /\ (st.word = "nat" => nat # "off") =>
                 \E g \in GrantsOf(stmts, nat) : g.net = n /\ g.ports = st.ports
<1>1. \A m \in DOMAIN Subnets : Subnets[m] \in Nets
  BY ConfigAssumption
<1>2. NAT \subseteq Nets /\ n \notin {"on", "off"}
  BY ConfigAssumption
<1>3. ASSUME NEW g \in GrantsOf(stmts, nat), g.net = n, g.ports # {}
      PROVE  \E st \in stmts : Covers(st, n) /\ st.ports = g.ports
  <2>1. Granting(stmts, nat, g)
    BY GrantsGranting
  <2>2. \A m \in Nets : g # Grant(m, {})
    BY <1>3, GrantTyped
  <2>3. ASSUME NEW st \in stmts, g = Grant(st.arg, st.ports),
               st.word = "route" \/ (st.word = "nat" /\ st.arg \notin {"on", "off"})
        PROVE  Covers(st, n) /\ st.ports = g.ports
    <3>1. st \in Statements /\ st.arg \in Nets /\ st.ports \in SUBSET Ports
      BY <2>3, StatementKinds
    <3> QED BY <1>3, <2>3, <3>1, GrantTyped DEF Covers
  <2>4. ASSUME NEW st \in stmts, g = Grant(Subnets[st.arg], st.ports),
               st.word = "subnet", st.arg \in DOMAIN Subnets
        PROVE  Covers(st, n) /\ st.ports = g.ports
    <3>1. st \in Statements /\ Subnets[st.arg] \in Nets /\ st.ports \in SUBSET Ports
      BY <1>1, <2>4, StatementKinds
    <3> QED BY <1>3, <2>4, <3>1, GrantTyped DEF Covers
  <2> QED BY <1>1, <1>2, <2>1, <2>2, <2>3, <2>4 DEF Granting
<1>4. ASSUME NEW st \in stmts, Covers(st, n), st.word = "nat" => nat # "off"
      PROVE  \E g \in GrantsOf(stmts, nat) : g.net = n /\ g.ports = st.ports
  <2>1. st \in Statements /\ st.ports \in SUBSET Ports
    BY StatementKinds
  <2> DEFINE g == Grant(n, st.ports)
  <2>2. g.net = n /\ g.ports = st.ports
    BY <2>1, GrantTyped
  <2>3. Granting(stmts, nat, g)
    <3>1. CASE st.word = "route" \/ st.word = "nat"
      BY <1>2, <1>4, <3>1 DEF Covers, Granting
    <3>2. CASE st.word = "subnet"
      BY <1>4, <3>2 DEF Covers, Granting
    <3> QED BY <1>4, <3>1, <3>2 DEF Covers
  <2> HIDE DEF g
  <2> QED BY <2>2, <2>3, GrantsGranting
<1> QED BY <1>3, <1>4

-----------------------------------------------------------------------------
(***************************************************************************)
(* What GetUserConfig makes of a parsed text.                              *)
(***************************************************************************)
LEMMA GrantsApply ==
    ASSUME NEW conf, NEW gs
    PROVE  GetUserConfig(conf, gs) =
              IF ~HasAccess(conf, gs) THEN None
              ELSE [dns |-> Setting(Applying(conf, gs), "dns", "unset"),
                    routes |-> Routes(GrantsOf(ToSet(Applying(conf, gs)),
                                               Setting(Applying(conf, gs), "nat", "on")))]
BY DEF GetUserConfig, GrantsOf, OfWord, OfWordIn

(* A dns setting is one the parser knows.                                  *)
LEMMA SettingKnown ==
    ASSUME NEW stmts \in Seq(Statements)
    PROVE  Setting(stmts, "dns", "unset") \in {"unset", "on", "off"}
<1> DEFINE at == {k \in DOMAIN stmts : stmts[k].word = "dns"}
<1>1. Len(stmts) \in Nat /\ DOMAIN stmts = 1..Len(stmts) /\ at \in SUBSET (0..Len(stmts))
  OBVIOUS
<1>2. ASSUME at # {} PROVE Max(at) \in at
  <2> HIDE DEF at
  <2> QED BY <1>1, <1>2, MaxUpTo
<1>3. ASSUME NEW k \in at PROVE stmts[k].arg \in {"on", "off"}
  BY StatementKinds
<1>4. Setting(stmts, "dns", "unset") = IF at = {} THEN "unset" ELSE stmts[Max(at)].arg
  BY DEF Setting
<1> HIDE DEF at
<1> QED BY <1>2, <1>3, <1>4

(* The policy of a file is a UserConfig or none, and so are its rules      *)
(* of the user's chain (config.go:274-294, configfile.go:345-409).         *)
LEMMA PolicyTyped ==
    ASSUME NEW conf, IsConf(conf), conf.order \in Seq(Groups), NEW gs \in SUBSET Groups
    PROVE  /\ GetUserConfig(conf, gs) \in UserConfigs \cup {None}
           /\ GetUserConfig(conf, gs) # None =>
                 Rules(GetUserConfig(conf, gs)) \subseteq Nets \X (Ports \cup {0})
           /\ GetUserConfig(conf, gs) = None <=> ~HasAccess(conf, gs)
<1> DEFINE stmts == Applying(conf, gs)
           nat == Setting(stmts, "nat", "on")
           grants == GrantsOf(ToSet(stmts), nat)
           config == [dns |-> Setting(stmts, "dns", "unset"), routes |-> Routes(grants)]
<1>1. stmts \in Seq(Statements)
  <2>1. /\ "global" \in DOMAIN conf.of
        /\ \A s \in DOMAIN conf.of : conf.of[s] \in Seq(Statements)
        /\ ToSet(conf.order) = Groups \cap DOMAIN conf.of
    BY DEF IsConf
  <2>2. \A k \in 1..Len(conf.order) : conf.of[conf.order[k]] \in Seq(Statements)
    BY <2>1 DEF ToSet
  <2>3. PICK r : GroupByGroup(conf, gs, r)
    BY <2>1, <2>2, AppliesGroupByGroup
  <2>4. r[Len(conf.order)] \in Seq(Statements)
    <3>1. Len(conf.order) \in 0..Len(conf.order)
      OBVIOUS
    <3> QED BY <2>3, <3>1 DEF GroupByGroup
  <2> QED BY <2>1, <2>3, <2>4 DEF GroupByGroup
<1>2. GetUserConfig(conf, gs) = IF ~HasAccess(conf, gs) THEN None ELSE config
  BY GrantsApply
<1> HIDE DEF stmts
<1>3. ToSet(stmts) \in SUBSET Statements
  BY <1>1 DEF ToSet
<1> HIDE DEF nat
<1>4. grants \in SUBSET Grants
  BY <1>3, GrantsTyped
<1> HIDE DEF grants
<1>5. config \in UserConfigs
  BY <1>1, <1>4, SettingKnown, RoutesTyped DEF UserConfigs
<1>6. Rules(config) \subseteq Nets \X (Ports \cup {0})
  <2>1. /\ DOMAIN config.routes \in SUBSET Nets
        /\ \A n \in DOMAIN config.routes : config.routes[n] \in SUBSET Ports
    BY <1>4, RoutesTyped
  <2> HIDE DEF config
  <2> QED BY <2>1, RulesReach
<1>7. None \notin UserConfigs
  BY ConfigAssumption
<1> HIDE DEF config
<1> QED BY <1>2, <1>5, <1>6, <1>7

(* What the rules let through, from the statements that are kept.          *)
OpenSo(K, nat, open) ==
    \A n \in Nets, p \in Ports \ {0} :
       /\ <<n, p>> \in open => OpenedFor(K, nat, n, p)
       /\ OpenedFor(K, nat, n, p) /\ <<n, p>> \notin open => \E st \in K : Narrows(st, n, p)
       /\ <<n, p>> \in open
          /\ (\E st \in K : Narrows(st, n, p) /\ (st.word = "nat" => nat # "off")) =>
             \E st \in K : st.ports # {} /\ Opens(st, n, p)

LEMMA KeptOpen ==
    ASSUME NEW K \in SUBSET Statements, NEW nat, NEW config,
           config.routes = Routes(GrantsOf(K, nat))
    PROVE  OpenSo(K, nat, Reach(Rules(config)))
<1> DEFINE grants == GrantsOf(K, nat)
           open == Reach(Rules(config))
<1> SUFFICES ASSUME NEW n \in Nets, NEW p \in Ports \ {0}
             PROVE  /\ <<n, p>> \in open => OpenedFor(K, nat, n, p)
                    /\ OpenedFor(K, nat, n, p) /\ <<n, p>> \notin open =>
                          \E st \in K : Narrows(st, n, p)
                    /\ <<n, p>> \in open
                       /\ (\E st \in K : Narrows(st, n, p) /\ (st.word = "nat" => nat # "off")) =>
                          \E st \in K : st.ports # {} /\ Opens(st, n, p)
  BY DEF OpenSo
<1>1. grants \in SUBSET Grants
  BY GrantsTyped
<1>2. OpenedFor(K, nat, n, p) <=> \E g \in grants : Opening(g, n, p)
  BY GrantsOpen
<1>3. /\ \A g \in grants : g.net = n /\ g.ports # {} =>
            \E st \in K : Covers(st, n) /\ st.ports = g.ports
      /\ \A st \in K : Covers(st, n) /\ (st.word = "nat" => nat # "off") =>
            \E g \in grants : g.net = n /\ g.ports = st.ports
  BY GrantsStated
<1> HIDE DEF grants
<1>4. /\ <<n, p>> \in open => \E g \in grants : Opening(g, n, p)
      /\ (\E g \in grants : Opening(g, n, p)) /\ <<n, p>> \notin open =>
            \E g \in grants : g.net = n /\ g.ports # {} /\ {0, p} \cap g.ports = {}
      /\ (\E g \in grants : g.net = n /\ g.ports # {}) /\ <<n, p>> \in open =>
            \E g \in grants : g.net = n /\ {0, p} \cap g.ports # {}
  BY <1>1, RoutesOpen DEF grants
<1> HIDE DEF open
<1>5. ASSUME OpenedFor(K, nat, n, p), <<n, p>> \notin open PROVE \E st \in K : Narrows(st, n, p)
  <2>1. PICK g \in grants : g.net = n /\ g.ports # {} /\ {0, p} \cap g.ports = {}
    BY <1>2, <1>4, <1>5
  <2>2. PICK st \in K : Covers(st, n) /\ st.ports = g.ports
    BY <1>3, <2>1
  <2> QED BY <2>1, <2>2 DEF Narrows
<1>6. ASSUME <<n, p>> \in open, NEW st \in K, Narrows(st, n, p), st.word = "nat" => nat # "off"
      PROVE  \E s \in K : s.ports # {} /\ Opens(s, n, p)
  <2>1. PICK g \in grants : g.net = n /\ g.ports # {}
    BY <1>3, <1>6 DEF Narrows
  <2>2. PICK h \in grants : h.net = n /\ {0, p} \cap h.ports # {}
    BY <1>4, <1>6, <2>1
  <2>3. PICK s \in K : Covers(s, n) /\ s.ports = h.ports
    BY <1>3, <2>2
  <2> QED BY <2>2, <2>3 DEF Opens
<1> QED BY <1>2, <1>4, <1>5, <1>6

(* What is kept of the lines that concern a user, and what is lost.        *)
LEMMA KeptAndLost ==
    ASSUME NEW text, IsText(text), NEW gs \in SUBSET Groups
    PROVE  /\ {text.lines[i] : i \in Counting(text, gs)} = LinesKept(text, gs)
           /\ \A word, default :
                 (\A st \in LinesLost(text, gs) : st.word # word) =>
                    LastAmong(text, Counting(text, gs), word, default)
                       = LastSaid(text, gs, word, default)
<1>1. ASSUME NEW word, NEW default, \A st \in LinesLost(text, gs) : st.word # word
      PROVE  LastAmong(text, Counting(text, gs), word, default)
               = LastSaid(text, gs, word, default)
  <2>1. \A i \in Concerning(text, gs) : text.lines[i].word = word => i \notin Lost(text)
    BY <1>1 DEF LinesLost
  <2>2. {i \in Counting(text, gs) : text.lines[i].word = word}
          = {i \in Concerning(text, gs) : text.lines[i].word = word}
    BY <2>1 DEF Counting
  <2> DEFINE WordOf(S) == IF S = {} THEN default
                          ELSE text.lines[CHOOSE i \in S : \A j \in S : Outranks(text, i, j)].arg
  <2>3. /\ LastAmong(text, Counting(text, gs), word, default)
             = WordOf({i \in Counting(text, gs) : text.lines[i].word = word})
        /\ LastSaid(text, gs, word, default)
             = WordOf({i \in Concerning(text, gs) : text.lines[i].word = word})
    BY DEF LastAmong, LastSaid
  <2> HIDE DEF WordOf
  <2> QED BY <2>2, <2>3
<1>2. {text.lines[i] : i \in Counting(text, gs)} = LinesKept(text, gs)
  BY DEF LinesKept, Counting
<1> QED BY <1>1, <1>2, Zenon

(* What all lines open, be it by name or at large.                         *)
LEMMA SaidFor ==
    ASSUME NEW text, NEW gs, NEW n \in Nets, NEW p \in Ports \ {0}
    PROVE  <<n, p>> \in OpenedBy(text, gs) \cup OpenedAtLarge(text, gs)
             <=> OpenedFor(LinesKept(text, gs) \cup LinesLost(text, gs),
                           LastSaid(text, gs, "nat", "on"), n, p)
<1> DEFINE nat == LastSaid(text, gs, "nat", "on")
           A == LinesKept(text, gs) \cup LinesLost(text, gs)
<1>1. A = {text.lines[i] : i \in Concerning(text, gs)}
  BY DEF LinesKept, LinesLost
<1> HIDE DEF A, nat
<1>2. <<n, p>> \in OpenedBy(text, gs)
        <=> \E st \in A : Opens(st, n, p) /\ (st.word = "nat" => nat # "off")
  BY <1>1 DEF OpenedBy, nat
<1>3. <<n, p>> \in OpenedAtLarge(text, gs)
        <=> \/ nat = "on" /\ n \in NAT
            \/ /\ \A st \in A : st.word # "subnet"
               /\ \E m \in DOMAIN Subnets : Subnets[m] = n
  BY <1>1 DEF OpenedAtLarge, nat
<1> QED BY <1>2, <1>3 DEF OpenedFor, A, nat

(* Two readings of the nat and subnet lines, of all lines and of those     *)
(* kept.                                                                   *)
LEMMA ReadingsDiffer ==
    ASSUME NEW K, NEW L, NEW natK, NEW natA, NEW open, OpenSo(K, natK, open),
           (\A st \in L : st.word # "nat") => natK = natA, NEW n \in Nets, NEW p \in Ports \ {0}
    PROVE  LET Loses(word) == \E st \in L : st.word = word
               OfNAT == n \in NAT \/ \E st \in K : st.word = "nat" /\ Opens(st, n, p)
           IN  /\ <<n, p>> \in open /\ ~OpenedFor(K \cup L, natA, n, p) =>
                     \/ Loses("subnet") /\ \E s \in DOMAIN Subnets : Subnets[s] = n
                     \/ Loses("nat") /\ OfNAT
               /\ OpenedFor(K \cup L, natA, n, p) /\ <<n, p>> \notin open =>
                     \/ \E st \in L : Opens(st, n, p)
                     \/ Loses("nat") /\ OfNAT
                     \/ \E st \in K : Narrows(st, n, p)
<1> DEFINE Loses(word) == \E st \in L : st.word = word
           OfNAT == n \in NAT \/ \E st \in K : st.word = "nat" /\ Opens(st, n, p)
<1>1. /\ <<n, p>> \in open => OpenedFor(K, natK, n, p)
      /\ OpenedFor(K, natK, n, p) /\ <<n, p>> \notin open => \E st \in K : Narrows(st, n, p)
  BY DEF OpenSo
<1>2. natK # natA => Loses("nat")
  OBVIOUS
<1>3. ASSUME OpenedFor(K, natK, n, p), ~OpenedFor(K \cup L, natA, n, p)
      PROVE  \/ Loses("subnet") /\ \E s \in DOMAIN Subnets : Subnets[s] = n
             \/ Loses("nat") /\ OfNAT
  BY <1>2, <1>3, Zenon DEF OpenedFor
<1>4. ASSUME OpenedFor(K \cup L, natA, n, p), ~OpenedFor(K, natK, n, p)
      PROVE  \/ \E st \in L : Opens(st, n, p)
             \/ Loses("nat") /\ OfNAT
  BY <1>2, <1>4, Zenon DEF OpenedFor
<1> QED BY <1>1, <1>3, <1>4

(* For every text and every set of groups: the policy of the parsed text   *)
(* is the one its lines give, but for what the lost lines said             *)
(* (parser.go:31-83, configfile.go:78-194 and 345-409).                    *)
THEOREM PolicyReadOff ==
    ASSUME NEW text, IsText(text), ParseConfig(text) # None, NEW gs \in SUBSET Groups
    PROVE  AsWritten(GetUserConfig(ParseConfig(text), gs), text, gs)
<1> DEFINE conf == ParseConfig(text)
           stmts == Applying(conf, gs)
           natK == LastAmong(text, Counting(text, gs), "nat", "on")
           natA == LastSaid(text, gs, "nat", "on")
           K == LinesKept(text, gs)
           L == LinesLost(text, gs)
           config == GetUserConfig(conf, gs)
           open == Reach(Rules(config))
           said == OpenedBy(text, gs) \cup OpenedAtLarge(text, gs)
           Loses(word) == \E st \in L : st.word = word
           Stands(st) == st.word = "nat" => ~Loses("nat") /\ natA # "off"
           OfNAT(n, p) == n \in NAT \/ \E st \in K : st.word = "nat" /\ Opens(st, n, p)
<1>1. ParsedSo(text, conf)
  BY ParsedLines
<1> HIDE DEF conf
<1>2. IsConf(conf) /\ conf.order \in Seq(Groups)
  BY <1>1, ParsedTyped DEF ParsedSo
<1>3. config = None <=> \A s \in {"user"} \cup gs : WholeHeaders(text, s) = {}
  BY <1>1, <1>2, PolicyTyped, AccessDeclared
<1>4. ToSet(stmts) = K /\ K \in SUBSET Statements
  BY <1>1, StatementsSet, KeptAndLost
<1>5. /\ Setting(stmts, "nat", "on") = natK
      /\ Setting(stmts, "dns", "unset") = LastAmong(text, Counting(text, gs), "dns", "unset")
  BY <1>1, SettingSaid
<1>6. ASSUME config # None
      PROVE  /\ config.dns = LastAmong(text, Counting(text, gs), "dns", "unset")
             /\ config.routes = Routes(GrantsOf(K, natK))
  <2>1. config = [dns |-> Setting(stmts, "dns", "unset"),
                  routes |-> Routes(GrantsOf(ToSet(stmts), Setting(stmts, "nat", "on")))]
    BY <1>6, GrantsApply
  <2> HIDE DEF config, stmts, natK, K
  <2> QED BY <1>4, <1>5, <2>1
<1>7. /\ (\A st \in L : st.word # "nat") => natK = natA
      /\ (\A st \in L : st.word # "dns") =>
            LastAmong(text, Counting(text, gs), "dns", "unset")
              = LastSaid(text, gs, "dns", "unset")
  BY KeptAndLost
<1>8. open \subseteq Nets \X (Ports \ {0}) /\ said \subseteq Nets \X (Ports \ {0})
  BY DEF Reach, OpenedBy, OpenedAtLarge
<1>9. \A n \in Nets, p \in Ports \ {0} : <<n, p>> \in said <=> OpenedFor(K \cup L, natA, n, p)
  BY SaidFor
<1>10. ASSUME NEW s \in {"user"} \cup gs
       PROVE  /\ WholeHeaders(text, s) = {} => Headers(text, s) \subseteq Lost(text)
              /\ WholeHeaders(text, s) # {} => Headers(text, s) # {}
  <2>1. Len(text.lines) \in Nat /\ DOMAIN text.lines = 1..Len(text.lines)
    BY DEF IsText
  <2> QED BY <2>1 DEF WholeHeaders, Whole, Headers, Lost
<1> HIDE DEF K, L, natK, natA, open, said, config, stmts
<1>11. ASSUME config # None PROVE OpenSo(K, natK, open)
  BY <1>4, <1>6, <1>11, KeptOpen DEF open
<1>12. ASSUME config # None, NEW n \in Nets, NEW p \in Ports \ {0}
       PROVE  /\ <<n, p>> \in open /\ <<n, p>> \notin said =>
                    \/ Loses("subnet") /\ \E s \in DOMAIN Subnets : Subnets[s] = n
                    \/ Loses("nat") /\ OfNAT(n, p)
              /\ <<n, p>> \in said /\ <<n, p>> \notin open =>
                    \/ \E st \in L : Opens(st, n, p)
                    \/ Loses("nat") /\ OfNAT(n, p)
                    \/ \E st \in K : Narrows(st, n, p)
  BY <1>7, <1>9, <1>11, <1>12, ReadingsDiffer
<1>13. ASSUME config # None, NEW n \in Nets, NEW p \in Ports \ {0}, <<n, p>> \in open,
              NEW st \in K, Stands(st), Narrows(st, n, p)
       PROVE  \E s \in K : s.ports # {} /\ Opens(s, n, p)
  <2>1. st.word = "nat" => natK # "off"
    BY <1>7, <1>13
  <2> QED BY <1>11, <1>13, <2>1 DEF OpenSo
<1>14. ASSUME NEW np \in Nets \X (Ports \ {0})
       PROVE  np = <<np[1], np[2]>> /\ np[1] \in Nets /\ np[2] \in Ports \ {0}
  OBVIOUS
<1>15. ASSUME config # None
       PROVE  /\ Declared(text, gs)
              /\ Loses("dns") \/ config.dns = LastSaid(text, gs, "dns", "unset")
  BY <1>3, <1>6, <1>7, <1>10, <1>15 DEF Declared
<1>16. ASSUME config # None, NEW np \in open \ said
       PROVE  \/ Loses("subnet") /\ \E s \in DOMAIN Subnets : Subnets[s] = np[1]
              \/ Loses("nat") /\ OfNAT(np[1], np[2])
  BY <1>8, <1>12, <1>14, <1>16
<1>17. ASSUME config # None, NEW np \in said \ open
       PROVE  \/ \E st \in L : Opens(st, np[1], np[2])
              \/ Loses("nat") /\ OfNAT(np[1], np[2])
              \/ \E st \in K : Narrows(st, np[1], np[2])
  BY <1>8, <1>12, <1>14, <1>17
<1>18. ASSUME config # None, NEW np \in open, \E st \in K : Stands(st) /\ Narrows(st, np[1], np[2])
       PROVE  \E st \in K : st.ports # {} /\ Opens(st, np[1], np[2])
  BY <1>8, <1>13, <1>14, <1>18
<1>19. config = None => \A s \in {"user"} \cup gs : Headers(text, s) \subseteq Lost(text)
  BY <1>3, <1>10
<1> QED BY <1>15, <1>16, <1>17, <1>18, <1>19
        DEF AsWritten, K, L, natA, open, said, config, conf

===============================================================================
