------------------------ MODULE NetworkManager_proofs ------------------------
(***************************************************************************)
(* What the scan for networks makes of iwlist's output, for every number   *)
(* of cells with any names and any numbers.                                *)
(*                                                                         *)
(* The argument: after every cell, that is every three lines, the network  *)
(* at hand has that cell's name and nothing else, and the numbers of the   *)
(* cells so far are listed, each under the name before (CellsRead).  The   *)
(* rest is induction on the number of cells, for which the recursive       *)
(* function of the loop must first be shown to exist.                      *)
(***************************************************************************)
EXTENDS NetworkManager, WellFoundedInduction, TLAPS

\* Induction over the natural numbers, for a set in place of a predicate.
LEMMA SetInduction ==
  ASSUME NEW S \in SUBSET Nat, 0 \in S, \A n \in S : n + 1 \in S
  PROVE  Nat \subseteq S
  <1> SUFFICES ASSUME Nat \ S # {} PROVE FALSE
    OBVIOUS
  <1> DEFINE R == OpToRel(<, Nat)
  <1>1. IsWellFoundedOn(R, Nat)
    BY NatLessThanWellFounded
  <1>2. \A x, y \in Nat : x < y => <<x, y>> \in R
    BY DEF OpToRel
  <1> HIDE DEF R
  <1>3. PICK x \in Nat \ S : \A y \in Nat \ S : ~(<<y, x>> \in R)
    BY <1>1, WFMin
  <1>4. x \in Nat /\ x - 1 \in Nat \ S /\ x - 1 < x
    BY <1>3
  <1>5. <<x - 1, x>> \in R
    BY <1>2, <1>4
  <1> QED
    BY <1>3, <1>4, <1>5

-----------------------------------------------------------------------------
(* The recursive function *)

Start == [nets |-> <<>>, cell |-> NewCell("Unknown", FALSE)]

Loop(p, lines, k) ==
  p = [i \in 0 .. k |-> IF i = 0 THEN Start ELSE ParseLine(p[i - 1], lines[i])]

\* One more line can always be parsed.
LEMMA LoopGoesOn ==
  ASSUME NEW lines, NEW k \in Nat, NEW p, Loop(p, lines, k)
  PROVE  \E q : Loop(q, lines, k + 1)
  <1> DEFINE q == [i \in 0 .. k + 1 |->
                     IF i <= k THEN p[i] ELSE ParseLine(p[k], lines[k + 1])]
  <1>1. \A i \in 0 .. k : p[i] = IF i = 0 THEN Start ELSE ParseLine(p[i - 1], lines[i])
    BY DEF Loop
  <1>2. ASSUME NEW i \in 0 .. k + 1
        PROVE  q[i] = IF i = 0 THEN Start ELSE ParseLine(q[i - 1], lines[i])
    <2>1. CASE i <= k
      BY <1>1, <2>1
    <2>2. CASE i = k + 1
      <3>1. q[i] = ParseLine(p[k], lines[k + 1]) /\ i # 0
        BY <2>2
      <3>2. q[i - 1] = p[k]
        BY <2>2
      <3> QED
        BY <2>2, <3>1, <3>2
    <2> QED
      BY <2>1, <2>2
  <1>3. q = [i \in 0 .. k + 1 |-> q[i]]
    OBVIOUS
  <1> HIDE DEF q
  <1>4. Loop(q, lines, k + 1)
    BY <1>2, <1>3 DEF Loop
  <1> QED
    BY <1>4

LEMMA LoopExists ==
  ASSUME NEW lines, NEW k \in Nat
  PROVE  \E p : Loop(p, lines, k)
  <1> DEFINE S == {n \in Nat : \E p : Loop(p, lines, n)}
  <1>1. 0 \in S
    <2> DEFINE p == [i \in 0 .. 0 |-> Start]
    <2>1. Loop(p, lines, 0)
      BY DEF Loop
    <2> QED
      BY <2>1
  <1>2. \A n \in S : n + 1 \in S
    BY LoopGoesOn
  <1> HIDE DEF S
  <1>3. Nat \subseteq S
    <2>1. S \in SUBSET Nat
      BY DEF S
    <2> QED
      BY <1>1, <1>2, <2>1, SetInduction
  <1> QED
    BY <1>3 DEF S

\* ParseLines is the function its definition says it is.
LEMMA ParseLinesDefined ==
  ASSUME NEW lines, Len(lines) \in Nat
  PROVE  /\ ParseLines(lines)[0] = Start
         /\ \A i \in 1 .. Len(lines) :
              ParseLines(lines)[i] = ParseLine(ParseLines(lines)[i - 1], lines[i])
  <1>1. ParseLines(lines) = CHOOSE p : Loop(p, lines, Len(lines))
    BY DEF ParseLines, Loop, Start
  <1>2. Loop(ParseLines(lines), lines, Len(lines))
    BY <1>1, LoopExists
  <1> QED
    BY <1>2 DEF Loop

-----------------------------------------------------------------------------
(* One line *)

Lines(names) ==
  [key : {"ESSID"}, value : names] \cup [key : Strengths \cup {"Frequency"}, value : Int]

Entry(names) ==
  [ssid : names \cup {"Unknown"}, signal : Int, channel : Int, band : {"2.4", "5"}]

Cell(names) ==
  [ssid : names \cup {"Unknown"}, signal : Int, frequency : Int, seen : BOOLEAN]

Acc(names) == [nets : Seq(Entry(names)), cell : Cell(names)]

LEMMA StrengthType ==
  ASSUME NEW names, NEW l \in Lines(names), l.key \in Strengths
  PROVE  Strength(l) \in Int
  <1>1. l.value \in Int
    BY DEF Lines, Strengths
  <1> QED
    BY <1>1 DEF Strength, SignalRatio, SignalStrength, Clamp

\* The entry of a network says what the network at hand has.
LEMMA ListedFields ==
  ASSUME NEW names, NEW cell \in Cell(names)
  PROVE  /\ Listed(cell) \in Entry(names)
         /\ Listed(cell).ssid = cell.ssid /\ Listed(cell).signal = cell.signal
         /\ Listed(cell).channel = FreqToChannel(cell.frequency)
         /\ Listed(cell).band = Band(cell.frequency)
  <1>1. cell.frequency \in Int
    BY DEF Cell
  <1>2. FreqToChannel(cell.frequency) \in Int /\ Band(cell.frequency) \in {"2.4", "5"}
    BY <1>1 DEF FreqToChannel, Band
  <1> QED
    BY <1>2 DEF Listed, Entry, Cell

LEMMA NetworksType ==
  ASSUME NEW names, NEW acc \in Acc(names)
  PROVE  Networks(acc) \in Seq(Entry(names))
  <1>1. acc.nets \in Seq(Entry(names)) /\ acc.cell \in Cell(names)
    BY DEF Acc
  <1>2. Listed(acc.cell) \in Entry(names)
    BY <1>1, ListedFields
  <1> QED
    BY <1>1, <1>2 DEF Networks

\* A line begins a network with its name, or changes one thing of the network
\* at hand.
Changes(names, acc, l, new) ==
  /\ new \in Acc(names) /\ new.cell \in Cell(names) /\ new.cell.seen = TRUE
  /\ l.key = "ESSID" => new.nets = Networks(acc) /\ new.cell.ssid = l.value
  /\ l.key # "ESSID" => new.nets = acc.nets /\ new.cell.ssid = acc.cell.ssid
  /\ l.key \in Strengths =>
       new.cell.signal = Strength(l) /\ new.cell.frequency = acc.cell.frequency
  /\ l.key = "Frequency" =>
       new.cell.frequency = l.value /\ new.cell.signal = acc.cell.signal

LEMMA LineParsed ==
  ASSUME NEW names, NEW acc \in Acc(names), NEW l \in Lines(names)
  PROVE  Changes(names, acc, l, ParseLine(acc, l))
  <1> DEFINE new == ParseLine(acc, l)
  <1>0. acc = [nets |-> acc.nets, cell |-> acc.cell] /\ acc.nets \in Seq(Entry(names))
        /\ acc.cell \in Cell(names)
    BY DEF Acc
  <1>1. l.key \in {"ESSID", "Frequency"} \cup Strengths
    BY DEF Lines
  <1> HIDE DEF new
  <1> SUFFICES Changes(names, acc, l, new)
    BY DEF new
  <1>2. CASE l.key = "ESSID"
    <2> DEFINE cell == NewCell(l.value, TRUE)
    <2>1. l.value \in names
      BY <1>2 DEF Lines, Strengths
    <2>2. cell = [ssid |-> l.value, signal |-> 0, frequency |-> 2400, seen |-> TRUE]
      BY DEF NewCell
    <2> HIDE DEF cell
    <2>3. cell \in Cell(names) /\ cell.ssid = l.value /\ cell.seen = TRUE
      BY <2>1, <2>2 DEF Cell
    <2>4. new = [nets |-> Networks(acc), cell |-> cell]
      BY <1>2 DEF new, ParseLine, Strengths, cell
    <2>5. new \in Acc(names) /\ new.nets = Networks(acc) /\ new.cell = cell
      BY <2>3, <2>4, NetworksType DEF Acc
    <2> QED
      BY <1>2, <2>3, <2>5 DEF Changes, Strengths
  <1>3. CASE l.key \in Strengths
    <2> DEFINE cell == [acc.cell EXCEPT !.signal = Strength(l), !.seen = TRUE]
    <2>1. Strength(l) \in Int
      BY <1>3, StrengthType
    <2>2. /\ cell \in Cell(names) /\ cell.ssid = acc.cell.ssid /\ cell.seen = TRUE
          /\ cell.signal = Strength(l) /\ cell.frequency = acc.cell.frequency
      BY <1>0, <2>1 DEF Cell
    <2> HIDE DEF cell
    <2>3. new = [acc EXCEPT !.cell = cell]
      BY <1>3 DEF new, ParseLine, Strengths, cell
    <2>4. new = [nets |-> acc.nets, cell |-> cell]
      BY <1>0, <2>3
    <2>5. new \in Acc(names) /\ new.nets = acc.nets /\ new.cell = cell
      BY <1>0, <2>2, <2>4 DEF Acc
    <2>6. l.key # "ESSID" /\ l.key # "Frequency"
      BY <1>3 DEF Strengths
    <2> QED
      BY <1>3, <2>2, <2>5, <2>6 DEF Changes
  <1>4. CASE l.key = "Frequency"
    <2> DEFINE cell == [acc.cell EXCEPT !.frequency = l.value, !.seen = TRUE]
    <2>1. l.value \in Int
      BY <1>4 DEF Lines
    <2>2. /\ cell \in Cell(names) /\ cell.ssid = acc.cell.ssid /\ cell.seen = TRUE
          /\ cell.frequency = l.value /\ cell.signal = acc.cell.signal
      BY <1>0, <2>1 DEF Cell
    <2> HIDE DEF cell
    <2>3. new = [acc EXCEPT !.cell = cell]
      BY <1>4 DEF new, ParseLine, Strengths, cell
    <2>4. new = [nets |-> acc.nets, cell |-> cell]
      BY <1>0, <2>3
    <2>5. new \in Acc(names)
      BY <1>0, <2>2, <2>4 DEF Acc
    <2> QED
      BY <1>4, <2>2, <2>4, <2>5 DEF Changes, Strengths
  <1> QED
    BY <1>1, <1>2, <1>3, <1>4

-----------------------------------------------------------------------------
(* All the cells *)

CellsOf(names) ==
  [frequency : [key : {"Frequency"}, value : Int],
   level : [key : Strengths, value : Int],
   essid : [key : {"ESSID"}, value : names]]

NameBefore(cells, i) == IF i = 1 THEN "Unknown" ELSE cells[i - 1].essid.value

\* The numbers of cell i under the name before it.
EntryOf(cells, i, entry) ==
  /\ entry.ssid = NameBefore(cells, i)
  /\ entry.signal = Strength(cells[i].level)
  /\ entry.channel = FreqToChannel(cells[i].frequency.value)
  /\ entry.band = Band(cells[i].frequency.value)

\* What is listed, and at hand, when the first n cells were read.
CellsRead(names, cells, acc, n) ==
  /\ acc \in Acc(names) /\ Len(acc.nets) = n
  /\ acc.cell.seen = (n > 0)
  /\ acc.cell.ssid = NameBefore(cells, n + 1)
  /\ \A i \in 1 .. n : EntryOf(cells, i, acc.nets[i])

\* The three lines of a cell, and their places.
LEMMA PrintedLines ==
  ASSUME NEW cells, Len(cells) \in Nat
  PROVE  /\ Len(Printed(cells)) = 3 * Len(cells)
         /\ \A n \in 0 .. Len(cells) - 1 :
              /\ Printed(cells)[3 * n + 1] = cells[n + 1].frequency
              /\ Printed(cells)[3 * n + 2] = cells[n + 1].level
              /\ Printed(cells)[3 * n + 3] = cells[n + 1].essid
  <1>1. Len(Printed(cells)) = 3 * Len(cells)
    BY DEF Printed
  <1>2. ASSUME NEW n \in 0 .. Len(cells) - 1
        PROVE  /\ Printed(cells)[3 * n + 1] = cells[n + 1].frequency
               /\ Printed(cells)[3 * n + 2] = cells[n + 1].level
               /\ Printed(cells)[3 * n + 3] = cells[n + 1].essid
    <2>1. ASSUME NEW i \in {3 * n + 1, 3 * n + 2, 3 * n + 3}
          PROVE  i \in 1 .. 3 * Len(cells) /\ (i + 2) \div 3 = n + 1
      OBVIOUS
    <2>2. (3 * n + 1) % 3 = 1 /\ (3 * n + 2) % 3 = 2 /\ (3 * n + 3) % 3 = 0
      OBVIOUS
    <2>3. ASSUME NEW i \in 1 .. 3 * Len(cells), (i + 2) \div 3 = n + 1
          PROVE  /\ i % 3 = 1 => Printed(cells)[i] = cells[n + 1].frequency
                 /\ i % 3 = 2 => Printed(cells)[i] = cells[n + 1].level
                 /\ i % 3 = 0 => Printed(cells)[i] = cells[n + 1].essid
      BY <2>3 DEF Printed
    <2> QED
      BY <2>1, <2>2, <2>3
  <1> QED
    BY <1>1, <1>2

\* One more cell: its numbers go to the network at hand, which is then listed,
\* and its name to the next one.
LEMMA CellRead ==
  ASSUME NEW names, NEW cells \in Seq(CellsOf(names)), NEW n \in 0 .. Len(cells) - 1,
         NEW acc, CellsRead(names, cells, acc, n), NEW a, NEW b, NEW c,
         a = ParseLine(acc, cells[n + 1].frequency),
         b = ParseLine(a, cells[n + 1].level),
         c = ParseLine(b, cells[n + 1].essid)
  PROVE  CellsRead(names, cells, c, n + 1)
  <1> DEFINE cell == cells[n + 1]
  <1>1. /\ cell \in CellsOf(names)
        /\ cell.frequency \in Lines(names) /\ cell.level \in Lines(names)
        /\ cell.essid \in Lines(names)
        /\ cell.frequency.key = "Frequency" /\ cell.level.key \in Strengths
        /\ cell.essid.key = "ESSID"
    <2>1. cell \in CellsOf(names)
      OBVIOUS
    <2> HIDE DEF cell
    <2> QED
      BY <2>1 DEF CellsOf, Lines
  <1> HIDE DEF cell
  <1>2. acc \in Acc(names) /\ acc.nets \in Seq(Entry(names))
    BY DEF CellsRead, Acc
  <1>3. /\ a \in Acc(names) /\ a.nets = acc.nets /\ a.cell.ssid = acc.cell.ssid
        /\ a.cell.frequency = cell.frequency.value
    <2>1. Changes(names, acc, cell.frequency, a)
      BY <1>1, <1>2, LineParsed DEF cell
    <2> QED
      BY <1>1, <2>1 DEF Changes
  <1>4. /\ b \in Acc(names) /\ b.nets = acc.nets /\ b.cell.ssid = acc.cell.ssid
        /\ b.cell.frequency = cell.frequency.value /\ b.cell.signal = Strength(cell.level)
        /\ b.cell.seen = TRUE /\ b.cell \in Cell(names)
    <2>1. Changes(names, a, cell.level, b)
      BY <1>1, <1>3, LineParsed DEF cell
    <2>2. cell.level.key # "ESSID"
      BY <1>1 DEF Strengths
    <2> QED
      BY <1>1, <1>3, <2>1, <2>2 DEF Changes
  <1>5. /\ c \in Acc(names) /\ c.nets = Append(acc.nets, Listed(b.cell))
        /\ c.cell.seen = TRUE /\ c.cell.ssid = cell.essid.value
    <2>1. Changes(names, b, cell.essid, c)
      BY <1>1, <1>4, LineParsed DEF cell
    <2> QED
      BY <1>1, <1>4, <2>1 DEF Changes, Networks
  <1>6. /\ Listed(b.cell).ssid = acc.cell.ssid
        /\ Listed(b.cell).signal = Strength(cell.level)
        /\ Listed(b.cell).channel = FreqToChannel(cell.frequency.value)
        /\ Listed(b.cell).band = Band(cell.frequency.value)
        /\ Listed(b.cell) \in Entry(names)
    BY <1>4, ListedFields
  <1>7. /\ Len(c.nets) = n + 1 /\ c.nets[n + 1] = Listed(b.cell)
        /\ \A i \in 1 .. n : c.nets[i] = acc.nets[i]
    BY <1>2, <1>5, <1>6 DEF CellsRead
  <1>8. ASSUME NEW i \in 1 .. n + 1
        PROVE  EntryOf(cells, i, c.nets[i])
    <2>1. CASE i \in 1 .. n
      <3>1. EntryOf(cells, i, acc.nets[i])
        BY <2>1 DEF CellsRead
      <3> QED
        BY <1>7, <2>1, <3>1
    <2>2. CASE i = n + 1
      <3>1. acc.cell.ssid = NameBefore(cells, i)
        BY <2>2 DEF CellsRead
      <3>2. EntryOf(cells, i, Listed(b.cell))
        BY <1>6, <2>2, <3>1 DEF cell, EntryOf
      <3> QED
        BY <1>7, <2>2, <3>2
    <2> QED
      BY <2>1, <2>2
  <1>9. c.cell.ssid = NameBefore(cells, (n + 1) + 1)
    BY <1>5 DEF cell, NameBefore
  <1>10. c.cell.seen = (n + 1 > 0)
    <2>1. (n + 1 > 0) = TRUE
      OBVIOUS
    <2> QED
      BY <1>5, <2>1
  <1> QED
    BY <1>5, <1>7, <1>8, <1>9, <1>10 DEF CellsRead

LEMMA NothingRead ==
  ASSUME NEW names, NEW cells
  PROVE  CellsRead(names, cells, Start, 0)
  <1>1. /\ NewCell("Unknown", FALSE) \in Cell(names)
        /\ NewCell("Unknown", FALSE).seen = FALSE
        /\ NewCell("Unknown", FALSE).ssid = "Unknown"
    BY DEF NewCell, Cell
  <1>2. Start.nets = <<>> /\ Start.cell = NewCell("Unknown", FALSE)
    BY DEF Start
  <1>3. <<>> \in Seq(Entry(names)) /\ Len(<<>>) = 0
    OBVIOUS
  <1>4. Start \in Acc(names)
    BY <1>1, <1>3 DEF Start, Acc
  <1>5. NameBefore(cells, 0 + 1) = "Unknown" /\ (0 > 0) = FALSE /\ 1 .. 0 = {}
    BY DEF NameBefore
  <1> QED
    BY <1>1, <1>2, <1>3, <1>4, <1>5 DEF CellsRead

LEMMA AllRead ==
  ASSUME NEW names, NEW cells \in Seq(CellsOf(names))
  PROVE  CellsRead(names, cells, ParseLines(Printed(cells))[3 * Len(cells)], Len(cells))
  <1> DEFINE acc(n) == ParseLines(Printed(cells))[3 * n]
             S == {n \in Nat : n <= Len(cells) => CellsRead(names, cells, acc(n), n)}
  <1>0. Len(cells) \in Nat /\ Len(Printed(cells)) = 3 * Len(cells)
        /\ Len(Printed(cells)) \in Nat
    BY PrintedLines
  <1>1. 0 \in S
    <2>1. ParseLines(Printed(cells))[0] = Start
      BY <1>0, ParseLinesDefined
    <2> QED
      BY <2>1, NothingRead
  <1>2. ASSUME NEW n \in S, n + 1 <= Len(cells)
        PROVE  CellsRead(names, cells, acc(n + 1), n + 1)
    <2> DEFINE P(i) == ParseLines(Printed(cells))[i]
    <2>1. n \in 0 .. Len(cells) - 1 /\ CellsRead(names, cells, P(3 * n), n)
      BY <1>0, <1>2
    <2>2. \A i \in 1 .. 3 * Len(cells) : P(i) = ParseLine(P(i - 1), Printed(cells)[i])
      BY <1>0, ParseLinesDefined
    <2>3. /\ 3 * n + 1 \in 1 .. 3 * Len(cells) /\ (3 * n + 1) - 1 = 3 * n
          /\ 3 * n + 2 \in 1 .. 3 * Len(cells) /\ (3 * n + 2) - 1 = 3 * n + 1
          /\ 3 * n + 3 \in 1 .. 3 * Len(cells) /\ (3 * n + 3) - 1 = 3 * n + 2
          /\ 3 * (n + 1) = 3 * n + 3
      BY <1>0, <2>1
    <2>4. /\ Printed(cells)[3 * n + 1] = cells[n + 1].frequency
          /\ Printed(cells)[3 * n + 2] = cells[n + 1].level
          /\ Printed(cells)[3 * n + 3] = cells[n + 1].essid
      BY <1>0, <2>1, PrintedLines
    <2> HIDE DEF P
    <2>5. /\ P(3 * n + 1) = ParseLine(P(3 * n), cells[n + 1].frequency)
          /\ P(3 * n + 2) = ParseLine(P(3 * n + 1), cells[n + 1].level)
          /\ P(3 * n + 3) = ParseLine(P(3 * n + 2), cells[n + 1].essid)
      BY <2>2, <2>3, <2>4
    <2>6. CellsRead(names, cells, P(3 * n + 3), n + 1)
      BY <2>1, <2>5, CellRead
    <2> QED
      BY <2>3, <2>6 DEF P
  <1>3. \A n \in S : n + 1 \in S
    BY <1>2
  <1>4. S \in SUBSET Nat
    OBVIOUS
  <1> HIDE DEF S
  <1>5. Len(cells) \in S
    BY <1>0, <1>1, <1>3, <1>4, SetInduction
  <1> QED
    BY <1>0, <1>5 DEF S

\* Cells without a broken line.
LEMMA CellsWithoutBroken ==
  ASSUME NEW names, NEW cells \in Seq(CellsOf(names))
  PROVE  ListedLate(cells, ScanIwlist(Printed(cells)))
  <1> DEFINE n == Len(cells)
             acc == ParseLines(Printed(cells))[3 * n]
             listed == ScanIwlist(Printed(cells))
  <1>0. n \in Nat /\ Len(Printed(cells)) = 3 * n
    BY PrintedLines
  <1>1. ~Broken(Printed(cells))
    <2> SUFFICES ASSUME NEW i \in DOMAIN Printed(cells)
                 PROVE  Printed(cells)[i].key # "Broken"
      BY DEF Broken
    <2>1. i \in 1 .. 3 * n
      BY <1>0 DEF Printed
    <2>2. (i + 2) \div 3 \in 1 .. n
      BY <1>0, <2>1
    <2>3. cells[(i + 2) \div 3] \in CellsOf(names)
      BY <2>2
    <2> DEFINE cell == cells[(i + 2) \div 3]
    <2>4. Printed(cells)[i] \in {cell.frequency, cell.level, cell.essid}
      <3>1. i % 3 \in {0, 1, 2}
        BY <2>1
      <3> QED
        BY <2>1, <3>1 DEF Printed
    <2> HIDE DEF cell
    <2>5. \A l \in {cell.frequency, cell.level, cell.essid} : l.key # "Broken"
      BY <2>3 DEF CellsOf, Strengths, cell
    <2> QED
      BY <2>4, <2>5
  <1>2. listed = Networks(acc)
    BY <1>0, <1>1 DEF ScanIwlist
  <1>3. CellsRead(names, cells, acc, n)
    BY AllRead
  <1> SUFFICES ListedLate(cells, listed)
    OBVIOUS
  <1> HIDE DEF n, acc, listed
  <1>4. acc.nets \in Seq(Entry(names)) /\ acc.cell \in Cell(names) /\ Len(acc.nets) = n
    BY <1>3 DEF CellsRead, Acc
  <1>5. CASE n = 0
    <2>1. ~acc.cell.seen
      <3>1. (n > 0) = FALSE
        BY <1>5
      <3> QED
        BY <1>3, <3>1 DEF CellsRead
    <2>2. listed = acc.nets
      BY <1>2, <2>1 DEF Networks
    <2>3. cells = <<>> /\ 1 .. Len(cells) = {}
      BY <1>5 DEF n
    <2>4. Len(listed) = 0
      BY <1>4, <1>5, <2>2
    <2> QED
      BY <2>3, <2>4 DEF ListedLate
  <1>6. CASE n > 0
    <2>1. acc.cell.seen
      BY <1>3, <1>6 DEF CellsRead
    <2>2. NameBefore(cells, n + 1) = cells[n].essid.value
      BY <1>0, <1>6 DEF NameBefore
    <2>3. Listed(acc.cell) \in Entry(names) /\ Listed(acc.cell).ssid = cells[n].essid.value
      BY <1>3, <1>4, <2>2, ListedFields DEF CellsRead
    <2>4. listed = Append(acc.nets, Listed(acc.cell))
      BY <1>2, <2>1 DEF Networks
    <2>5. /\ Len(listed) = n + 1 /\ listed[n + 1] = Listed(acc.cell)
          /\ \A i \in 1 .. n : listed[i] = acc.nets[i]
      BY <1>0, <1>4, <2>3, <2>4
    <2>6. \A i \in 1 .. n : EntryOf(cells, i, listed[i])
      BY <1>3, <2>5 DEF CellsRead
    <2>7. listed[1].ssid = "Unknown"
      <3>1. 1 \in 1 .. n /\ NameBefore(cells, 1) = "Unknown"
        BY <1>0, <1>6 DEF NameBefore
      <3> QED
        BY <2>6, <3>1 DEF EntryOf
    <2>8. ASSUME NEW k \in 1 .. n
          PROVE  listed[k + 1].ssid = cells[k].essid.value
      <3>1. CASE k = n
        BY <2>3, <2>5, <3>1
      <3>2. CASE k # n
        <4>1. k + 1 \in 1 .. n /\ NameBefore(cells, k + 1) = cells[k].essid.value
          BY <1>0, <3>2 DEF NameBefore
        <4> QED
          BY <2>6, <4>1 DEF EntryOf
      <3> QED
        BY <3>1, <3>2
    <2>9. Len(cells) = n /\ cells # <<>>
      BY <1>6 DEF n
    <2> QED
      BY <2>5, <2>6, <2>7, <2>8, <2>9 DEF ListedLate, EntryOf
  <1>7. n = 0 \/ n > 0
    BY <1>0
  <1> QED
    BY <1>5, <1>6, <1>7

\* The answer made of what iwlist prints, however many cells it finds, with any
\* names and numbers: it is empty as soon as one line cannot be taken apart
\* (network_manager.py:168); otherwise it has every name, in the order of the
\* cells, and every cell's numbers, which stand under the name before theirs
\* (148-166).
THEOREM CellsAreListed ==
  ASSUME NEW names, NEW cells \in Seq(PrintedOf(names, Int))
  PROVE  CellsListed(cells, ScanNetworks(<<>>, Printed(cells)))
  <1>0. ScanNetworks(<<>>, Printed(cells)) = ScanIwlist(Printed(cells))
    BY DEF ScanNetworks
  <1>1. ASSUME NEW k \in DOMAIN cells,
               "Broken" \in {cells[k].frequency.key, cells[k].level.key}
        PROVE  ScanIwlist(Printed(cells)) = <<>>
    <2>1. Len(cells) \in Nat /\ k \in 1 .. Len(cells)
      OBVIOUS
    <2>2. k - 1 \in 0 .. Len(cells) - 1 /\ (k - 1) + 1 = k
      BY <2>1
    <2>3. /\ Printed(cells)[3 * (k - 1) + 1] = cells[k].frequency
          /\ Printed(cells)[3 * (k - 1) + 2] = cells[k].level
      BY <2>1, <2>2, PrintedLines
    <2>4. 3 * (k - 1) + 1 \in DOMAIN Printed(cells) /\ 3 * (k - 1) + 2 \in DOMAIN Printed(cells)
      BY <2>1 DEF Printed
    <2>5. Broken(Printed(cells))
      BY <1>1, <2>3, <2>4 DEF Broken
    <2> QED
      BY <2>5 DEF ScanIwlist
  <1>2. ASSUME ~\E k \in DOMAIN cells : "Broken" \in {cells[k].frequency.key, cells[k].level.key}
        PROVE  ListedLate(cells, ScanIwlist(Printed(cells)))
    <2>1. ASSUME NEW k \in 1 .. Len(cells)
          PROVE  cells[k] \in CellsOf(names)
      <3>1. cells[k] \in PrintedOf(names, Int) /\ k \in DOMAIN cells
        OBVIOUS
      <3>2. cells[k].frequency.key # "Broken" /\ cells[k].level.key # "Broken"
        BY <1>2, <3>1
      <3> QED
        BY <3>1, <3>2 DEF PrintedOf, CellsOf
    <2>2. cells \in Seq(CellsOf(names))
      BY <2>1
    <2> QED
      BY <2>2, CellsWithoutBroken
  <1> QED
    BY <1>0, <1>1, <1>2 DEF CellsListed
=============================================================================
