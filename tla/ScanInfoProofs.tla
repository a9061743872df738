---------------------------- MODULE ScanInfoProofs ----------------------------
(***************************************************************************)
(* The handlers put every text where it belongs, in a document of any      *)
(* size, depth and pieces.                                                 *)
(***************************************************************************)
EXTENDS ScanInfo, SequenceTheorems, TLAPS

OpenElement == [el : Name, of : Nat, text : Seq(Char)]

Typed ==
  /\ D \in Document
  /\ X \in [level : Int, element : Seq(Name), string : Seq(Char), antId : Nat, eopId : Int]
  /\ open \in Seq(OpenElement)
  /\ tags \in [all : 0..MaxElements, eopday : 0..MaxElements]
  /\ mute \in BOOLEAN
  /\ Len(X.string) < VLITE_XML_CHAR_SIZE

\* The element stack of the handlers is that of expat.
Stacked ==
  /\ X.level = Len(open) - 1 /\ Len(X.element) >= Len(open)
  /\ \A i \in 1..Len(open) : X.element[i] = open[i].el

\* The open elements are nested as documents are, and what is inside an antenna or an eopday
\* carries its number.
Nested ==
  \A i \in 2..Len(open) :
    /\ <<open[i - 1].el, open[i].el>> \in Nesting
    /\ i > 2 => open[i].of = open[i - 1].of

\* The root decides what the document is; nothing is counted before it starts.
Rooted ==
  /\ open # <<>> =>
       /\ open[1].el \in {"Observation", "AntennaPropertyTable", "other"}
       /\ D.type = "OBSERVATION" <=> open[1].el = "Observation"
       /\ D.type = "ANTPROP" <=> open[1].el = "AntennaPropertyTable"
  /\ tags.all = 0 => open = <<>> /\ D.type = "UNKNOWN"

\* eopId is the number of the latest eopday.
DaysCounted ==
  /\ tags.eopday <= tags.all
  /\ IF D.type = "ANTPROP" THEN X.eopId = tags.eopday - 1 ELSE X.eopId = 0 /\ tags.eopday = 0

Inside(name) == Len(open) >= 2 /\ open[2].el = name

\* Inside an antenna antId is its number, inside an eopday eopId is its number; outside an
\* antenna antId is no antenna's, unless one has ended without a text.
NumberedRight ==
  /\ Inside("AntennaProperties") => X.antId = open[2].of
  /\ Inside("eopday") => X.eopId = open[2].of
  /\ D.type = "ANTPROP" /\ ~Inside("AntennaProperties") /\ ~mute => X.antId \notin Antennas

\* An element that holds no others.
IsLeaf(name) == \A n \in Name : <<name, n>> \notin Nesting

\* The buffer holds the text of such an element, as far as it fits, and nothing else.
TextGathered ==
  open # <<>> /\ IsLeaf(Last(open).el) =>
    /\ X.string = Cut(Last(open).text)
    /\ \A i \in 1..Len(Last(open).text) :
         Last(open).text[i] = [el |-> Last(open).el, of |-> Last(open).of]

IInv == Typed /\ Stacked /\ Nested /\ Rooted /\ DaysCounted /\ NumberedRight /\ TextGathered

-----------------------------------------------------------------------------
(* The operators of the model. *)

\* Names and nesting: fields hold nothing, and it is known what holds them.
LEMMA NestingIs ==
  /\ \A m, n : <<m, n>> \in Nesting =>
       /\ m \in Name /\ n \in Name /\ ~IsLeaf(m)
       /\ n # "AntennaPropertyTable"
       /\ n = "sslo" => m = "Observation"
       /\ n = "Observation" => m = "other"
       /\ n = "other" => m = "AntennaProperties"
       /\ n \in {"AntennaProperties", "eopday"} => m = "AntennaPropertyTable"
       /\ n \in AntennaFields => m = "AntennaProperties"
       /\ n \in EopFields => m = "eopday"
  /\ \A f \in ObservationFields \union AntennaFields \union EopFields :
       IsLeaf(f) /\ f \in Name /\ f \notin Wrappers
BY DocumentAssumption DEF Nesting, IsLeaf, Name, Wrappers

\* What is cut off does not depend on when it is cut off.
LEMMA CutIs ==
  ASSUME NEW s \in Seq(Char), NEW str \in Seq(Char)
  PROVE  /\ Cut(s) \in Seq(Char) /\ Len(Cut(s)) < VLITE_XML_CHAR_SIZE
         /\ Cut(Cut(s) \o str) = Cut(s \o str)
         /\ Len(Cut(s)) <= Len(s) /\ \A i \in 1..Len(Cut(s)) : Cut(s)[i] = s[i]
         /\ s = <<>> => Cut(s) = <<>>
         /\ s # <<>> => Cut(s) # <<>>
<1> DEFINE m == VLITE_XML_CHAR_SIZE - 1
           k(u) == IF Len(u) < VLITE_XML_CHAR_SIZE THEN Len(u) ELSE m
<1>1. m \in Nat \ {0} /\ VLITE_XML_CHAR_SIZE = m + 1
  BY DocumentAssumption
<1>2. \A u \in Seq(Char) : /\ Cut(u) \in Seq(Char) /\ Len(Cut(u)) = k(u) /\ k(u) \in 0..Len(u)
                           /\ \A i \in 1..k(u) : Cut(u)[i] = u[i]
  BY <1>1 DEF Cut
<1>3. /\ Len(Cut(s)) < VLITE_XML_CHAR_SIZE /\ Len(Cut(s)) <= Len(s)
      /\ \A i \in 1..Len(Cut(s)) : Cut(s)[i] = s[i]
  <2>1. /\ Len(Cut(s)) = k(s) /\ k(s) \in 0..Len(s)
        /\ \A i \in 1..k(s) : Cut(s)[i] = s[i]
    BY <1>2
  <2>2. k(s) <= m /\ k(s) <= Len(s)
    BY <1>1
  <2> HIDE DEF k
  <2> QED
    BY <1>1, <2>1, <2>2
<1>4. Cut(Cut(s) \o str) = Cut(s \o str)
  <2> DEFINE a == Cut(s) \o str
             b == s \o str
  <2>1. a \in Seq(Char) /\ b \in Seq(Char)
    BY <1>2
  <2>2. /\ Len(a) = Len(Cut(s)) + Len(str) /\ Len(b) = Len(s) + Len(str)
        /\ Len(Cut(s)) = k(s) /\ Cut(s) \in Seq(Char)
        /\ \A i \in 1..k(s) : Cut(s)[i] = s[i]
    <3>1. /\ Cut(s) \in Seq(Char) /\ Len(Cut(s)) = k(s)
          /\ \A i \in 1..k(s) : Cut(s)[i] = s[i]
      BY <1>2
    <3>2. Len(a) = Len(Cut(s)) + Len(str) /\ Len(b) = Len(s) + Len(str)
      BY <3>1, ConcatProperties
    <3> HIDE DEF a, b, k
    <3> QED
      BY <3>1, <3>2
  <2>3. k(a) = k(b)
    BY <1>1, <2>2
  <2>4. \A i \in 1..k(a) : a[i] = b[i]
    <3>1. CASE Len(s) < VLITE_XML_CHAR_SIZE
      <4>1. /\ \A i \in 1..Len(s) : a[i] = s[i] /\ b[i] = s[i]
            /\ \A i \in Len(s) + 1 .. Len(s) + Len(str) :
                 a[i] = str[i - Len(s)] /\ b[i] = str[i - Len(s)]
        BY <2>2, <3>1
      <4> QED
        BY <1>1, <2>2, <3>1, <4>1
    <3>2. CASE ~(Len(s) < VLITE_XML_CHAR_SIZE)
      <4>1. \A i \in 1..m : a[i] = s[i] /\ b[i] = s[i]
        BY <1>1, <2>2, <3>2
      <4> QED
        BY <1>1, <2>2, <3>2, <4>1
    <3> QED
      BY <3>1, <3>2
  <2>5. /\ Len(Cut(a)) = k(a) /\ Len(Cut(b)) = k(b) /\ Cut(a) \in Seq(Char) /\ Cut(b) \in Seq(Char)
        /\ \A i \in 1..k(a) : Cut(a)[i] = a[i]
        /\ \A i \in 1..k(b) : Cut(b)[i] = b[i]
    BY <1>2, <2>1
  <2> HIDE DEF a, b, k
  <2>6. \A i \in 1..Len(Cut(a)) : Cut(a)[i] = Cut(b)[i]
    BY <2>3, <2>4, <2>5
  <2>7. Cut(a) = Cut(b)
    BY <2>3, <2>5, <2>6, SeqEqual
  <2> QED
    BY <2>7 DEF a, b
<1>5. s = <<>> => Cut(s) = <<>>
  <2>1. s = <<>> => Len(s) = 0 /\ Len(Cut(s)) = k(s)
    BY <1>2
  <2> QED
    BY <1>1, <1>2, <2>1, EmptySeq
<1>6. s # <<>> => Cut(s) # <<>>
  <2>1. s # <<>> => Len(Cut(s)) # 0
    BY <1>1, <1>2, EmptySeq
  <2> QED
    BY <2>1
<1> QED
  BY <1>2, <1>3, <1>4, <1>5, <1>6

\* Where a text is stored, and that a document stays one.
LEMMA StoringIs ==
  ASSUME Typed
  PROVE  /\ \A a \in Antennas : LET d == [D EXCEPT !.antenna[a].number = a]
                                IN  /\ d \in Document /\ d.type = D.type /\ d.eop = D.eop
                                    /\ d.observation = D.observation
                                    /\ \A b \in Antennas : d.antenna[b].text = D.antenna[b].text
         /\ \A f \in ObservationFields :
              LET d == [D EXCEPT !.observation[f] = X.string]
              IN  /\ d \in Document /\ d.type = D.type /\ d.antenna = D.antenna /\ d.eop = D.eop
                  /\ \A g \in ObservationFields :
                       d.observation[g] = IF g = f THEN X.string ELSE D.observation[g]
         /\ \A a \in Antennas, f \in AntennaFields :
              LET d == [D EXCEPT !.antenna[a].text[f] = X.string]
              IN  /\ d \in Document /\ d.type = D.type /\ d.observation = D.observation
                  /\ d.eop = D.eop
                  /\ \A b \in Antennas, g \in AntennaFields :
                       d.antenna[b].text[g] =
                         IF b = a /\ g = f THEN X.string ELSE D.antenna[b].text[g]
         /\ \A k \in Eops, f \in EopFields :
              LET d == [D EXCEPT !.eop[k][f] = X.string]
              IN  /\ d \in Document /\ d.type = D.type /\ d.observation = D.observation
                  /\ d.antenna = D.antenna
                  /\ \A l \in Eops, g \in EopFields :
                       d.eop[l][g] = IF l = k /\ g = f THEN X.string ELSE D.eop[l][g]
<1> USE DEF Document, Typed
<1>1. ASSUME NEW a \in Antennas
      PROVE  LET d == [D EXCEPT !.antenna[a].number = a]
             IN  /\ d \in Document /\ d.type = D.type /\ d.eop = D.eop
                 /\ d.observation = D.observation
                 /\ \A b \in Antennas : d.antenna[b].text = D.antenna[b].text
  <2> DEFINE r == [D.antenna[a] EXCEPT !.number = a]
             A == [D.antenna EXCEPT ![a] = r]
  <2>0. D.antenna[a] \in [number : Nat, text : [AntennaFields -> Seq(Char)]] /\ a \in Nat
    <3>1. D.antenna[a] \in [number : Nat, text : [AntennaFields -> Seq(Char)]]
      OBVIOUS
    <3>2. a \in Nat
      BY DocumentAssumption DEF Antennas
    <3> QED
      BY <3>1, <3>2
  <2>1. r \in [number : Nat, text : [AntennaFields -> Seq(Char)]] /\ r.text = D.antenna[a].text
    BY <2>0
  <2>2. /\ A \in [Antennas -> [number : Nat, text : [AntennaFields -> Seq(Char)]]]
        /\ \A b \in Antennas : A[b].text = D.antenna[b].text
    BY <2>1
  <2> HIDE DEF A
  <2>3. LET d == [D EXCEPT !.antenna = A]
        IN  /\ d \in Document /\ d.type = D.type /\ d.eop = D.eop
            /\ d.observation = D.observation /\ d.antenna = A
    BY <2>2
  <2> QED
    BY <2>2, <2>3 DEF A
<1>2. ASSUME NEW f \in ObservationFields
      PROVE  LET d == [D EXCEPT !.observation[f] = X.string]
              IN  /\ d \in Document /\ d.type = D.type /\ d.antenna = D.antenna /\ d.eop = D.eop
                  /\ \A g \in ObservationFields :
                       d.observation[g] = IF g = f THEN X.string ELSE D.observation[g]
  OBVIOUS
<1>3. ASSUME NEW a \in Antennas, NEW f \in AntennaFields
      PROVE  LET d == [D EXCEPT !.antenna[a].text[f] = X.string]
              IN  /\ d \in Document /\ d.type = D.type /\ d.observation = D.observation
                  /\ d.eop = D.eop
                  /\ \A b \in Antennas, g \in AntennaFields :
                       d.antenna[b].text[g] =
                         IF b = a /\ g = f THEN X.string ELSE D.antenna[b].text[g]
  <2> DEFINE T == [D.antenna[a].text EXCEPT ![f] = X.string]
             r == [D.antenna[a] EXCEPT !.text = T]
             A == [D.antenna EXCEPT ![a] = r]
  <2>1. /\ T \in [AntennaFields -> Seq(Char)]
        /\ \A g \in AntennaFields : T[g] = IF g = f THEN X.string ELSE D.antenna[a].text[g]
    OBVIOUS
  <2> HIDE DEF T
  <2>0. D.antenna[a] \in [number : Nat, text : [AntennaFields -> Seq(Char)]]
    OBVIOUS
  <2>2. r \in [number : Nat, text : [AntennaFields -> Seq(Char)]] /\ r.text = T
    BY <2>0, <2>1
  <2> HIDE DEF r
  <2>3. /\ A \in [Antennas -> [number : Nat, text : [AntennaFields -> Seq(Char)]]]
        /\ \A b \in Antennas : A[b] = IF b = a THEN r ELSE D.antenna[b]
    BY <2>2
  <2> HIDE DEF A
  <2>4. LET d == [D EXCEPT !.antenna = A]
        IN  /\ d \in Document /\ d.type = D.type /\ d.eop = D.eop
            /\ d.observation = D.observation /\ d.antenna = A
    BY <2>3
  <2>5. \A b \in Antennas, g \in AntennaFields :
          A[b].text[g] = IF b = a /\ g = f THEN X.string ELSE D.antenna[b].text[g]
    BY <2>1, <2>2, <2>3
  <2> QED
    BY <2>4, <2>5 DEF A, r, T
<1>4. ASSUME NEW k \in Eops, NEW f \in EopFields
      PROVE  LET d == [D EXCEPT !.eop[k][f] = X.string]
              IN  /\ d \in Document /\ d.type = D.type /\ d.observation = D.observation
                  /\ d.antenna = D.antenna
                  /\ \A l \in Eops, g \in EopFields :
                       d.eop[l][g] = IF l = k /\ g = f THEN X.string ELSE D.eop[l][g]
  OBVIOUS
<1> QED
  BY <1>1, <1>2, <1>3, <1>4

-----------------------------------------------------------------------------
(* Where the handlers are in a document. *)

\* The level of an element is known from its name.
LEMMA PlaceIs ==
  ASSUME Typed, Stacked, Nested, Rooted, open # <<>>
  PROVE  /\ Len(open) \in Nat \ {0} /\ Last(open) = open[Len(open)] /\ Last(open) \in OpenElement
         /\ Elem = Last(open).el
         /\ Last(open).el = "AntennaPropertyTable" => Len(open) = 1
         /\ Last(open).el \in {"AntennaProperties", "eopday"} => Len(open) = 2 /\ D.type = "ANTPROP"
         /\ Last(open).el \in AntennaFields =>
              /\ Len(open) = 3 /\ Inside("AntennaProperties") /\ D.type = "ANTPROP"
              /\ Last(open).of = open[2].of
         /\ Last(open).el \in EopFields =>
              /\ Len(open) = 3 /\ Inside("eopday") /\ D.type = "ANTPROP"
              /\ Last(open).of = open[2].of
<1> DEFINE n == Len(open)
           e == open[n]
<1>1. n \in Nat \ {0} /\ Last(open) = e /\ e \in OpenElement
  BY EmptySeq DEF Typed, Last
<1>2. Elem = e.el
  <2>1. X.level + 1 = n
    BY <1>1 DEF Stacked
  <2>2. X.element[n] = e.el
    BY <1>1 DEF Stacked
  <2> QED
    BY <2>1, <2>2 DEF Elem
<1>3. open[1].el \in {"Observation", "AntennaPropertyTable", "other"}
  BY DEF Rooted
<1>4. open[1].el = "AntennaPropertyTable" <=> D.type = "ANTPROP"
  BY DEF Rooted
<1>5. \A i \in 2..n : <<open[i - 1].el, open[i].el>> \in Nesting
  BY DEF Nested
<1>6. ASSUME NEW i \in 1..n, open[i].el = "AntennaPropertyTable" PROVE i = 1
  <2>1. i \in 2..n => <<open[i - 1].el, "AntennaPropertyTable">> \in Nesting
    BY <1>5, <1>6
  <2>2. i \notin 2..n
    BY <2>1, NestingIs
  <2> QED
    BY <1>1, <2>2
<1>7. ASSUME NEW i \in 1..n, open[i].el \in {"AntennaProperties", "eopday"}
      PROVE  i = 2 /\ D.type = "ANTPROP"
  <2>1. i # 1
    BY <1>3, <1>7
  <2>2. i \in 2..n /\ i - 1 \in 1..n
    BY <1>1, <2>1
  <2>3. open[i - 1].el = "AntennaPropertyTable"
    BY <1>5, <1>7, <2>2, NestingIs
  <2>4. i - 1 = 1
    BY <1>6, <2>2, <2>3
  <2> QED
    BY <1>4, <2>2, <2>3, <2>4
<1>8. ASSUME e.el \in AntennaFields \union EopFields
      PROVE  /\ n = 3 /\ D.type = "ANTPROP" /\ e.of = open[2].of
             /\ e.el \in AntennaFields => open[2].el = "AntennaProperties"
             /\ e.el \in EopFields => open[2].el = "eopday"
  <2>1. e.el \notin Wrappers
    BY <1>8, NestingIs
  <2>2. n # 1
    BY <1>3, <2>1 DEF Wrappers
  <2>3. n \in 2..n /\ n - 1 \in 1..n
    BY <1>1, <2>2
  <2>4. /\ e.el \in AntennaFields => open[n - 1].el = "AntennaProperties"
        /\ e.el \in EopFields => open[n - 1].el = "eopday"
    BY <1>5, <2>3, NestingIs
  <2>5. n - 1 = 2 /\ D.type = "ANTPROP"
    BY <1>7, <1>8, <2>3, <2>4
  <2>6. n = 3
    BY <1>1, <2>5
  <2>7. \A i \in 2..n : i > 2 => open[i].of = open[i - 1].of
    BY DEF Nested
  <2>8. open[3].of = open[2].of
    BY <2>6, <2>7
  <2> QED
    BY <2>4, <2>5, <2>6, <2>8
<1>9. Last(open).el = "AntennaPropertyTable" => n = 1
  <2>1. n \in 1..n
    BY <1>1
  <2> QED
    BY <1>1, <1>6, <2>1
<1>10. Last(open).el \in {"AntennaProperties", "eopday"} => n = 2 /\ D.type = "ANTPROP"
  <2>1. n \in 1..n
    BY <1>1
  <2> QED
    BY <1>1, <1>7, <2>1
<1> QED
  BY <1>1, <1>2, <1>8, <1>9, <1>10 DEF Inside

\* A start tag: the element goes on the stack with nothing gathered yet, where the parent
\* may hold it.
LEMMA StartKeeps ==
  ASSUME IInv, NEW name \in Name, NEW of \in Nat, Opens(name, of),
         NEW x, x.level = X.level, x.element = X.element,
         x \in [level : Int, element : Seq(Name), string : Seq(Char), antId : Nat, eopId : Int],
         X' = Push(x, name), D' \in Document, mute' = mute,
         Len(open) >= 2 => of = Last(open).of,
         open = <<>> => /\ D'.type = "OBSERVATION" <=> name = "Observation"
                        /\ D'.type = "ANTPROP" <=> name = "AntennaPropertyTable",
         open # <<>> => D'.type = D.type
  PROVE  /\ Typed' /\ Stacked' /\ Nested' /\ Rooted' /\ TextGathered'
         /\ Len(open') = Len(open) + 1 /\ X'.antId = x.antId /\ X'.eopId = x.eopId
         /\ \A i \in 1..Len(open) : open'[i] = open[i]
         /\ open'[Len(open) + 1].el = name /\ open'[Len(open) + 1].of = of
         /\ open = <<>> <=> Len(open) = 0
         /\ open = <<>> => tags.all = 0
<1> USE DEF IInv
<1> DEFINE n == Len(open)
           new == [el |-> name, of |-> of, text |-> <<>>]
<1>1. /\ open \in Seq(OpenElement) /\ n \in Nat /\ new \in OpenElement
      /\ open' = Append(open, new) /\ (open = <<>> <=> n = 0)
  BY EmptySeq DEF Typed, Opens, OpenElement
<1>2. /\ open' \in Seq(OpenElement) /\ Len(open') = n + 1 /\ open' # <<>>
      /\ \A i \in 1..n : open'[i] = open[i]
      /\ open'[n + 1] = new
  <2> HIDE DEF new
  <2> QED
    BY <1>1
<1>3. /\ X'.level = X.level + 1 /\ X'.string = <<>> /\ X'.antId = x.antId /\ X'.eopId = x.eopId
      /\ X'.element = Append(SubSeq(X.element, 1, X.level + 1), name)
      /\ X' \in [level : Int, element : Seq(Name), string : Seq(Char), antId : Nat, eopId : Int]
  <2>1. X.level + 1 \in 0..Len(X.element) /\ X.element \in Seq(Name)
    BY <1>1 DEF Typed, Stacked
  <2>2. SubSeq(X.element, 1, X.level + 1) \in Seq(Name)
    BY <2>1
  <2> DEFINE el == Append(SubSeq(X.element, 1, X.level + 1), name)
  <2>3. el \in Seq(Name)
    BY <2>2
  <2> HIDE DEF el
  <2>4. X' = [x EXCEPT !.string = <<>>, !.level = @ + 1, !.element = el]
    BY DEF Push, el
  <2>5. X.level + 1 \in Int /\ <<>> \in Seq(Char)
    BY <2>1
  <2> QED
    BY <2>3, <2>4, <2>5 DEF el
<1>4. tags.all < MaxElements /\ tags' \in [all : 0..MaxElements, eopday : 0..MaxElements]
      /\ tags'.all = tags.all + 1
  <2>1. tags.all < MaxElements /\ tags.eopday <= tags.all /\ tags.all \in Nat /\ tags.eopday \in Nat
    BY DEF Opens, MayStart, DaysCounted, Typed
  <2>2. tags' = [all |-> tags.all + 1,
                 eopday |-> IF name = "eopday" THEN tags.eopday + 1 ELSE tags.eopday]
    BY DEF Opens
  <2>3. /\ tags.all + 1 \in 0..MaxElements /\ tags.eopday \in 0..MaxElements
        /\ tags.eopday + 1 \in 0..MaxElements
    <3>1. MaxElements \in Nat
      BY DocumentAssumption
    <3> QED
      BY <2>1, <3>1
  <2> QED
    BY <2>1, <2>2, <2>3
<1>5. Typed'
  <2>1. Len(X'.string) < VLITE_XML_CHAR_SIZE
    BY <1>3, DocumentAssumption
  <2> QED
    BY <1>2, <1>3, <1>4, <2>1 DEF Typed
<1>6. Stacked'
  <2>1. X.level + 1 = n /\ n <= Len(X.element) /\ X.element \in Seq(Name)
    BY <1>1 DEF Typed, Stacked
  <2>2. /\ Len(X'.element) = n + 1 /\ X'.element[n + 1] = name
        /\ \A i \in 1..n : X'.element[i] = X.element[i]
    <3> DEFINE q == SubSeq(X.element, 1, n)
    <3>1. q \in Seq(Name) /\ Len(q) = n /\ \A i \in 1..n : q[i] = X.element[i]
      BY <1>1, <2>1
    <3>2. X'.element = Append(q, name)
      BY <1>3, <2>1
    <3> HIDE DEF q
    <3> QED
      BY <1>1, <3>1, <3>2
  <2>3. \A i \in 1..n : X.element[i] = open[i].el
    BY DEF Stacked
  <2>4. \A i \in 1..n+1 : i \in 1..n \/ i = n + 1
    BY <1>1
  <2>5. open'[n + 1].el = name
    BY <1>2
  <2>6. \A i \in 1..n+1 : X'.element[i] = open'[i].el
    BY <1>2, <2>2, <2>3, <2>4, <2>5
  <2>7. X'.level = Len(open') - 1 /\ Len(X'.element) >= Len(open')
    BY <1>1, <1>2, <1>3, <2>1, <2>2
  <2> QED
    BY <1>2, <2>6, <2>7 DEF Stacked
<1>7. open # <<>> => <<open[n].el, name>> \in Nesting
  BY <1>1 DEF Opens, MayStart, Last
<1>8. Nested'
  <2> SUFFICES ASSUME NEW i \in 2..n+1
               PROVE  /\ <<open'[i - 1].el, open'[i].el>> \in Nesting
                      /\ i > 2 => open'[i].of = open'[i - 1].of
    BY <1>2 DEF Nested
  <2>1. CASE i \in 2..n
    <3>1. i \in 1..n /\ i - 1 \in 1..n
      BY <1>1, <2>1
    <3>2. open'[i] = open[i] /\ open'[i - 1] = open[i - 1]
      BY <1>2, <3>1
    <3> QED
      BY <2>1, <3>2 DEF Nested
  <2>2. CASE i = n + 1
    <3>1. n >= 1 /\ open'[i - 1] = open[n] /\ open'[i] = new /\ open # <<>>
      BY <1>1, <1>2, <2>2
    <3>2. i > 2 => of = open[n].of
      BY <1>1, <2>2 DEF Last
    <3>3. /\ open'[i].el = name /\ open'[i].of = of
          /\ open'[i - 1].el = open[n].el /\ open'[i - 1].of = open[n].of
      BY <3>1
    <3>4. <<open'[i - 1].el, open'[i].el>> \in Nesting
      BY <1>7, <3>1, <3>3
    <3>5. i > 2 => open'[i].of = open'[i - 1].of
      BY <3>2, <3>3
    <3> QED
      BY <3>4, <3>5
  <2>3. i \in 2..n \/ i = n + 1
    BY <1>1
  <2> QED
    BY <2>1, <2>2, <2>3
<1>9. Rooted'
  <2>1. tags'.all # 0
    BY <1>4 DEF Typed
  <2>2. CASE open = <<>>
    <3>1. open'[1] = new
      BY <1>1, <1>2, <2>2
    <3>2. name \in {"Observation", "AntennaPropertyTable", "other"}
      BY <2>2 DEF Opens, MayStart
    <3> QED
      BY <2>1, <2>2, <3>1, <3>2 DEF Rooted
  <2>3. CASE open # <<>>
    <3>1. open'[1] = open[1]
      BY <1>1, <1>2, <2>3
    <3> QED
      BY <2>1, <2>3, <3>1 DEF Rooted
  <2> QED
    BY <2>2, <2>3
<1>10. TextGathered'
  <2>1. Last(open') = new
    BY <1>1, <1>2 DEF Last
  <2>2. Cut(<<>>) = <<>>
    <3>1. <<>> \in Seq(Char)
      OBVIOUS
    <3> QED
      BY <3>1, CutIs
  <2> QED
    BY <1>3, <2>1, <2>2 DEF TextGathered
<1>11. open = <<>> => tags.all = 0
  BY DEF Opens, MayStart
<1> QED
  BY <1>1, <1>2, <1>3, <1>5, <1>6, <1>8, <1>9, <1>10, <1>11

\* A start tag that is neither a root's, an antenna's nor an eopday's changes no number.
LEMMA PlainStartKeeps ==
  ASSUME IInv, NEW name \in Name \ {"AntennaProperties", "eopday", "AntennaPropertyTable"},
         NEW of \in Nat, Opens(name, of), X' = Push(X, name), D' \in Document, D'.type = D.type,
         mute' = mute, Len(open) >= 2 => of = Last(open).of,
         name = "Observation" => X.level # -1
  PROVE  IInv'
<1>1. open = <<>> => D.type = "UNKNOWN" /\ name # "Observation"
  <2> SUFFICES ASSUME open = <<>> PROVE D.type = "UNKNOWN" /\ name # "Observation"
    OBVIOUS
  <2>1. tags.all = 0 /\ X.level = -1
    BY DEF Opens, MayStart, IInv, Stacked
  <2> QED
    BY <2>1 DEF IInv, Rooted
<1>2. X \in [level : Int, element : Seq(Name), string : Seq(Char), antId : Nat, eopId : Int]
  BY DEF IInv, Typed
<1>3. /\ Typed' /\ Stacked' /\ Nested' /\ Rooted' /\ TextGathered'
      /\ Len(open') = Len(open) + 1 /\ X'.antId = X.antId /\ X'.eopId = X.eopId
      /\ \A i \in 1..Len(open) : open'[i] = open[i]
      /\ open'[Len(open) + 1].el = name
  BY <1>1, <1>2, StartKeeps
<1>4. DaysCounted'
  <2>1. tags'.eopday = tags.eopday /\ tags'.all = tags.all + 1
    BY DEF Opens
  <2>2. tags.eopday <= tags.all /\ tags.eopday \in Nat /\ tags.all \in Nat
    BY DEF IInv, DaysCounted, Typed
  <2> QED
    BY <1>3, <2>1, <2>2 DEF IInv, DaysCounted
<1>5. NumberedRight'
  <2>0. Len(open) \in Nat
    BY DEF IInv, Typed
  <2>1. Len(open) >= 2 => open'[2] = open[2]
    BY <1>3, <2>0
  <2>2. Len(open) = 1 => open'[2].el = name
    BY <1>3
  <2>3. \A k \in {"AntennaProperties", "eopday"} : Inside(k)' <=> Inside(k)
    BY <1>3, <2>0, <2>1, <2>2 DEF Inside
  <2>4. \A k \in {"AntennaProperties", "eopday"} : Inside(k) => open'[2] = open[2]
    BY <2>1 DEF Inside
  <2> QED
    BY <1>3, <2>3, <2>4 DEF IInv, NumberedRight
<1> QED
  BY <1>3, <1>4, <1>5 DEF IInv

\* The root makes the document what it is.
LEMMA RootKeeps ==
  ASSUME IInv, NEW name \in Name, StartRoot(name)
  PROVE  IInv'
<1>1. /\ name \in {"Observation", "AntennaPropertyTable"} /\ D.type = "UNKNOWN" /\ X.level = -1
      /\ Opens(name, 0) /\ mute' = mute
  BY DEF StartRoot
<1>2. open = <<>> /\ Len(open) = 0
  BY <1>1, EmptySeq DEF IInv, Typed, Stacked
<1> DEFINE x == IF name = "Observation" THEN X ELSE [X EXCEPT !.antId = 0, !.eopId = -1]
<1>3. /\ x \in [level : Int, element : Seq(Name), string : Seq(Char), antId : Nat, eopId : Int]
      /\ x.level = X.level /\ x.element = X.element
      /\ name # "Observation" => x.antId = 0 /\ x.eopId = -1
      /\ name = "Observation" => x = X
  <2>1. X \in [level : Int, element : Seq(Name), string : Seq(Char), antId : Nat, eopId : Int]
    BY DEF IInv, Typed
  <2> DEFINE m == -1
             y == [X EXCEPT !.antId = 0, !.eopId = m]
  <2>2. m \in Int /\ 0 \in Nat
    OBVIOUS
  <2> HIDE DEF m
  <2>3. /\ y \in [level : Int, element : Seq(Name), string : Seq(Char), antId : Nat, eopId : Int]
        /\ y.level = X.level /\ y.element = X.element /\ y.antId = 0 /\ y.eopId = m
    BY <2>1, <2>2
  <2>4. CASE name = "Observation"
    BY <2>1, <2>4
  <2>5. CASE name # "Observation"
    BY <2>3, <2>5 DEF m
  <2> QED
    BY <2>4, <2>5
<1>4. X' = Push(x, name)
  BY <1>1 DEF StartRoot
<1>5. /\ D' \in Document
      /\ D'.type = "OBSERVATION" <=> name = "Observation"
      /\ D'.type = "ANTPROP" <=> name = "AntennaPropertyTable"
  BY <1>1 DEF StartRoot, IInv, Typed, Document
<1> HIDE DEF x
<1>6. /\ Typed' /\ Stacked' /\ Nested' /\ Rooted' /\ TextGathered'
      /\ Len(open') = Len(open) + 1 /\ X'.antId = x.antId /\ X'.eopId = x.eopId
  BY <1>1, <1>2, <1>3, <1>4, <1>5, StartKeeps
<1>7. DaysCounted'
  <2>1. tags'.eopday = tags.eopday /\ tags'.all = tags.all + 1
    BY <1>1 DEF Opens
  <2>2. tags.eopday = 0 /\ tags.all \in Nat /\ X.eopId = 0
    BY <1>1 DEF IInv, DaysCounted, Typed
  <2> QED
    BY <1>1, <1>3, <1>5, <1>6, <2>1, <2>2 DEF DaysCounted
<1>8. NumberedRight'
  <2>1. Len(open') = 1
    BY <1>2, <1>6
  <2>2. 0 \notin Antennas
    BY DocumentAssumption DEF Antennas
  <2>3. \A k : ~Inside(k)'
    BY <2>1 DEF Inside
  <2>4. D'.type = "ANTPROP" => X'.antId = 0
    BY <1>1, <1>3, <1>5, <1>6
  <2>5. D'.type = "ANTPROP" => X'.antId \notin Antennas'
    BY <2>2, <2>4 DEF Antennas
  <2> QED
    BY <2>3, <2>5 DEF NumberedRight
<1> QED
  BY <1>6, <1>7, <1>8 DEF IInv

\* Inside an antenna antId is its number.
LEMMA AntennaKeeps == IInv /\ StartAntenna => IInv'
<1> SUFFICES ASSUME IInv, StartAntenna PROVE IInv'
  OBVIOUS
<1> DEFINE name == "AntennaProperties"
<1>1. PICK id \in 0..(VLA_ANTENNA_COUNT + 1) :
        /\ Opens(name, id)
        /\ X' = Push([X EXCEPT !.antId = id], name)
        /\ D' = IF id \in Antennas THEN [D EXCEPT !.antenna[id].number = id] ELSE D
  BY DEF StartAntenna
<1>2. D.type = "ANTPROP" /\ mute' = mute /\ id \in Nat /\ name \in Name
  BY <1>1, DocumentAssumption DEF StartAntenna, Name, Wrappers
<1>3. open # <<>> /\ Len(open) = 1
  <2>1. open # <<>>
    BY <1>1 DEF Opens, MayStart
  <2>2. <<Last(open).el, name>> \in Nesting
    BY <1>1, <2>1 DEF Opens, MayStart
  <2> QED
    BY <2>1, <2>2, PlaceIs, NestingIs DEF IInv
<1> DEFINE x == [X EXCEPT !.antId = id]
<1>4. /\ x \in [level : Int, element : Seq(Name), string : Seq(Char), antId : Nat, eopId : Int]
      /\ x.level = X.level /\ x.element = X.element /\ x.antId = id /\ x.eopId = X.eopId
  BY <1>2 DEF IInv, Typed
<1>5. D' \in Document /\ D'.type = D.type
  BY <1>1, StoringIs DEF IInv, Typed
<1>6. X' = Push(x, name)
  BY <1>1
<1> HIDE DEF x
<1>7. /\ Typed' /\ Stacked' /\ Nested' /\ Rooted' /\ TextGathered'
      /\ Len(open') = Len(open) + 1 /\ X'.antId = id /\ X'.eopId = X.eopId
      /\ open'[Len(open) + 1].el = name /\ open'[Len(open) + 1].of = id
  BY <1>1, <1>2, <1>3, <1>4, <1>5, <1>6, StartKeeps
<1>8. DaysCounted'
  <2>1. tags'.eopday = tags.eopday /\ tags'.all = tags.all + 1
    BY <1>1 DEF Opens
  <2>2. tags.eopday <= tags.all /\ tags.eopday \in Nat /\ tags.all \in Nat
    BY DEF IInv, DaysCounted, Typed
  <2> QED
    BY <1>5, <1>7, <2>1, <2>2 DEF IInv, DaysCounted
<1>9. NumberedRight'
  BY <1>3, <1>7 DEF NumberedRight, Inside
<1> QED
  BY <1>7, <1>8, <1>9 DEF IInv

\* Inside an eopday eopId is its number.
LEMMA EopdayKeeps == IInv /\ StartEopday => IInv'
<1> SUFFICES ASSUME IInv, StartEopday PROVE IInv'
  OBVIOUS
<1> DEFINE name == "eopday"
           x == [X EXCEPT !.eopId = @ + 1]
<1>1. /\ D.type = "ANTPROP" /\ Opens(name, tags.eopday) /\ X' = Push(x, name)
      /\ D' = D /\ mute' = mute
  BY DEF StartEopday
<1>2. name \in Name /\ tags.eopday \in Nat /\ tags.all \in Nat /\ tags.eopday <= tags.all
      /\ X.eopId = tags.eopday - 1
  BY <1>1 DEF Name, Wrappers, IInv, Typed, DaysCounted
<1>3. open # <<>> /\ Len(open) = 1
  <2>1. open # <<>>
    BY <1>1 DEF Opens, MayStart
  <2>2. <<Last(open).el, name>> \in Nesting
    BY <1>1, <2>1 DEF Opens, MayStart
  <2> QED
    BY <2>1, <2>2, PlaceIs, NestingIs DEF IInv
<1>4. /\ x \in [level : Int, element : Seq(Name), string : Seq(Char), antId : Nat, eopId : Int]
      /\ x.level = X.level /\ x.element = X.element /\ x.antId = X.antId
      /\ x.eopId = X.eopId + 1
  <2>1. X \in [level : Int, element : Seq(Name), string : Seq(Char), antId : Nat, eopId : Int]
    BY DEF IInv, Typed
  <2>2. X.eopId + 1 \in Int
    BY <2>1
  <2> DEFINE k == X.eopId + 1
  <2> HIDE DEF k
  <2>3. x = [X EXCEPT !.eopId = k] /\ k \in Int
    BY <2>2 DEF k
  <2> HIDE DEF x
  <2>4. /\ x \in [level : Int, element : Seq(Name), string : Seq(Char), antId : Nat, eopId : Int]
        /\ x.level = X.level /\ x.element = X.element /\ x.antId = X.antId /\ x.eopId = k
    BY <2>1, <2>3
  <2> QED
    BY <2>4 DEF k
<1>5. D' \in Document /\ D'.type = D.type
  BY <1>1 DEF IInv, Typed
<1> HIDE DEF x
<1>6. /\ Typed' /\ Stacked' /\ Nested' /\ Rooted' /\ TextGathered'
      /\ Len(open') = Len(open) + 1 /\ X'.antId = X.antId /\ X'.eopId = x.eopId
      /\ open'[Len(open) + 1].el = name /\ open'[Len(open) + 1].of = tags.eopday
  BY <1>1, <1>2, <1>3, <1>4, <1>5, StartKeeps
<1>7. DaysCounted'
  <2>1. tags'.eopday = tags.eopday + 1 /\ tags'.all = tags.all + 1
    BY <1>1 DEF Opens
  <2> QED
    BY <1>1, <1>2, <1>4, <1>6, <2>1 DEF DaysCounted
<1>8. NumberedRight'
  <2>1. Len(open') = 2 /\ open'[2].el = "eopday" /\ open'[2].of = tags.eopday
    BY <1>3, <1>6
  <2>2. ~mute => X.antId \notin Antennas
    BY <1>1, <1>3 DEF IInv, NumberedRight, Inside
  <2> QED
    BY <1>1, <1>2, <1>4, <1>6, <2>1, <2>2 DEF NumberedRight, Inside
<1> QED
  BY <1>6, <1>7, <1>8 DEF IInv

\* In an observation there is no other inside it.
LEMMA OneObservation ==
  ASSUME IInv, D.type = "OBSERVATION", NEW i \in 2..Len(open)
  PROVE  open[i].el # "Observation"
<1>1. open[1].el = "Observation"
  <2>1. open # <<>>
    BY EmptySeq DEF IInv, Typed
  <2> QED
    BY <2>1 DEF IInv, Rooted
<1>2. Len(open) \in Nat /\ \A k \in 2..Len(open) : <<open[k - 1].el, open[k].el>> \in Nesting
  BY DEF IInv, Typed, Nested
<1> SUFFICES ASSUME open[i].el = "Observation" PROVE FALSE
  OBVIOUS
<1>3. open[i - 1].el = "other"
  BY <1>2, NestingIs
<1>4. i - 1 \in 2..Len(open)
  BY <1>1, <1>2, <1>3
<1>5. open[i - 1 - 1].el = "AntennaProperties"
  BY <1>2, <1>3, <1>4, NestingIs
<1>6. i - 1 - 1 \in 2..Len(open)
  BY <1>1, <1>2, <1>4, <1>5
<1>7. open[i - 1 - 1 - 1].el = "AntennaPropertyTable"
  <2>1. <<open[i - 1 - 1 - 1].el, open[i - 1 - 1].el>> \in Nesting
    BY <1>2, <1>6
  <2> QED
    BY <1>5, <2>1, NestingIs
<1>8. i - 1 - 1 - 1 \in 2..Len(open)
  BY <1>1, <1>2, <1>6, <1>7
<1> QED
  BY <1>2, <1>7, <1>8, NestingIs

\* An sslo is looked at in an observation only, where it is a child of the root.
LEMMA SsloKeeps == IInv /\ StartSslo => IInv'
<1> SUFFICES ASSUME IInv, StartSslo PROVE IInv'
  OBVIOUS
<1> DEFINE name == "sslo"
<1>1. /\ D.type = "OBSERVATION" /\ Opens(name, 0) /\ X' = Push(X, name) /\ mute' = mute
      /\ D' = D \/ D' = [D EXCEPT !.usesPband = TRUE]
  BY DEF StartSslo
<1>2. D' \in Document /\ D'.type = D.type
  BY <1>1 DEF IInv, Typed, Document
<1>3. ~(Len(open) >= 2)
  <2> SUFFICES ASSUME Len(open) >= 2 PROVE FALSE
    OBVIOUS
  <2>1. open # <<>> /\ Len(open) \in 2..Len(open)
    BY EmptySeq DEF IInv, Typed
  <2>2. <<Last(open).el, name>> \in Nesting
    BY <1>1, <2>1 DEF Opens, MayStart
  <2>3. open[Len(open)].el = "Observation"
    BY <2>2, NestingIs DEF Last
  <2> QED
    BY <1>1, <2>1, <2>3, OneObservation
<1>4. name \in Name \ {"AntennaProperties", "eopday", "AntennaPropertyTable"}
  BY DEF Name, Wrappers
<1> QED
  BY <1>1, <1>2, <1>3, <1>4, PlainStartKeeps

\* A name the handlers do nothing for.
LEMMA OtherKeeps ==
  ASSUME IInv, NEW name \in Name, StartOther(name)
  PROVE  IInv'
<1> DEFINE of == IF open = <<>> THEN 0 ELSE Last(open).of
<1>1. /\ \/ name \in ObservationFields \union AntennaFields \union EopFields \union {"other"}
         \/ name = "Observation" /\ X.level # -1
      /\ Opens(name, of) /\ X' = Push(X, name) /\ D' = D /\ mute' = mute
  BY DEF StartOther
<1>2. name \in Name \ {"AntennaProperties", "eopday", "AntennaPropertyTable"}
      /\ (name = "Observation" => X.level # -1)
  BY <1>1, NestingIs DEF Wrappers
<1>3. of \in Nat /\ (Len(open) >= 2 => of = Last(open).of)
  <2>1. open = <<>> => Len(open) = 0
    BY EmptySeq DEF IInv, Typed
  <2>2. open # <<>> => Last(open) \in OpenElement
    BY PlaceIs DEF IInv
  <2> QED
    BY <2>1, <2>2 DEF OpenElement
<1>4. D' \in Document /\ D'.type = D.type
  BY <1>1 DEF IInv, Typed
<1> HIDE DEF of
<1> QED
  BY <1>1, <1>2, <1>3, <1>4, PlainStartKeeps

-----------------------------------------------------------------------------
(* Text, and end tags. *)

\* The buffer gathers the text of the element, whatever the pieces.
LEMMA TextKeeps == IInv /\ Text => IInv'
<1> SUFFICES ASSUME IInv, Text PROVE IInv'
  OBVIOUS
<1> DEFINE e == Last(open)
           n == Len(open)
<1>1. PICK k \in 1..2 :
        LET str == [i \in 1..k |-> [el |-> e.el, of |-> e.of]]
        IN  /\ X' = [X EXCEPT !.string = AddText(@, str)]
            /\ open' = [open EXCEPT ![n].text = @ \o str]
  BY DEF Text
<1> DEFINE str == [i \in 1..k |-> [el |-> e.el, of |-> e.of]]
           t == e.text \o str
<1>2. open # <<>> /\ D' = D /\ tags' = tags /\ mute' = mute
  BY DEF Text
<1>3. n \in Nat \ {0} /\ e = open[n] /\ e \in OpenElement /\ open \in Seq(OpenElement)
  BY <1>2, PlaceIs DEF IInv, Typed
<1>4. /\ str \in Seq(Char) /\ Len(str) = k
      /\ \A i \in 1..k : str[i] = [el |-> e.el, of |-> e.of]
  <2>1. [el |-> e.el, of |-> e.of] \in Char
    BY <1>3 DEF OpenElement, Char
  <2> QED
    BY <2>1
<1>5. e.text \in Seq(Char) /\ X.string \in Seq(Char)
  BY <1>3 DEF OpenElement, IInv, Typed
<1> HIDE DEF str
<1>6. /\ t \in Seq(Char) /\ Len(t) = Len(e.text) + k
      /\ \A i \in 1..Len(e.text) : t[i] = e.text[i]
      /\ \A i \in Len(e.text) + 1 .. Len(t) : t[i] = str[i - Len(e.text)]
  BY <1>4, <1>5
<1> HIDE DEF t
<1> DEFINE new == [e EXCEPT !.text = t]
<1>7. new \in OpenElement /\ new.el = e.el /\ new.of = e.of /\ new.text = t
  BY <1>3, <1>6 DEF OpenElement
<1>8. /\ open' \in Seq(OpenElement) /\ Len(open') = n /\ open' # <<>>
      /\ \A i \in 1..n : open'[i] = IF i = n THEN new ELSE open[i]
  <2>1. open' = [open EXCEPT ![n] = new]
    BY <1>1, <1>3 DEF t, str
  <2> HIDE DEF new
  <2>2. n \in 1..n
    BY <1>3
  <2>3. open' \in Seq(OpenElement) /\ Len(open') = n
    BY <1>3, <1>7, <2>1, <2>2, ExceptSeq
  <2> QED
    BY <1>3, <2>1, <2>2, <2>3, EmptySeq
<1>9. /\ \A i \in 1..n : open'[i].el = open[i].el /\ open'[i].of = open[i].of
      /\ Last(open') = new
  <2>1. n \in 1..n /\ open'[n] = new
    BY <1>3, <1>8
  <2> HIDE DEF new
  <2>2. \A i \in 1..n : open'[i].el = open[i].el /\ open'[i].of = open[i].of
    BY <1>3, <1>7, <1>8
  <2> QED
    BY <1>8, <2>1, <2>2 DEF Last
<1> HIDE DEF new
<1>10. /\ AddText(X.string, str) \in Seq(Char)
       /\ Len(AddText(X.string, str)) < VLITE_XML_CHAR_SIZE
  <2>1. X.string \o str \in Seq(Char) /\ <<>> \in Seq(Char)
    BY <1>4, <1>5
  <2> QED
    BY <2>1, CutIs DEF AddText
<1>11. /\ X' \in [level : Int, element : Seq(Name), string : Seq(Char), antId : Nat, eopId : Int]
       /\ X'.string = AddText(X.string, str) /\ X'.level = X.level /\ X'.element = X.element
       /\ X'.antId = X.antId /\ X'.eopId = X.eopId
  <2> DEFINE a == AddText(X.string, str)
  <2>1. X \in [level : Int, element : Seq(Name), string : Seq(Char), antId : Nat, eopId : Int]
    BY DEF IInv, Typed
  <2>2. X' = [X EXCEPT !.string = a]
    BY <1>1, <2>1 DEF str
  <2>3. a \in Seq(Char)
    BY <1>10
  <2> HIDE DEF a
  <2>4. /\ X' \in [level : Int, element : Seq(Name), string : Seq(Char), antId : Nat, eopId : Int]
        /\ X'.string = a /\ X'.level = X.level /\ X'.element = X.element
        /\ X'.antId = X.antId /\ X'.eopId = X.eopId
    BY <2>1, <2>2, <2>3
  <2> QED
    BY <2>4 DEF a
<1>12. Typed'
  BY <1>2, <1>8, <1>10, <1>11 DEF IInv, Typed
<1>13. Stacked'
  BY <1>8, <1>9, <1>11 DEF IInv, Stacked
<1>14. Nested'
  <2> SUFFICES ASSUME NEW i \in 2..n
               PROVE  /\ <<open'[i - 1].el, open'[i].el>> \in Nesting
                      /\ i > 2 => open'[i].of = open'[i - 1].of
    BY <1>8 DEF Nested
  <2>1. i \in 1..n /\ i - 1 \in 1..n
    BY <1>3
  <2>2. <<open[i - 1].el, open[i].el>> \in Nesting /\ (i > 2 => open[i].of = open[i - 1].of)
    BY DEF IInv, Nested
  <2> QED
    BY <1>9, <2>1, <2>2
<1>15. Rooted'
  <2>1. 1 \in 1..n
    BY <1>3
  <2> QED
    BY <1>2, <1>8, <1>9, <2>1 DEF IInv, Rooted
<1>16. DaysCounted'
  BY <1>2, <1>11 DEF IInv, DaysCounted
<1>17. NumberedRight'
  <2>1. n >= 2 => open'[2].el = open[2].el /\ open'[2].of = open[2].of
    BY <1>3, <1>9
  <2>2. \A name : Inside(name)' <=> Inside(name)
    BY <1>8, <2>1 DEF Inside
  <2>3. \A name : Inside(name) => open'[2].of = open[2].of
    BY <2>1 DEF Inside
  <2> QED
    BY <1>2, <1>11, <2>2, <2>3 DEF IInv, NumberedRight
<1>18. TextGathered'
  <2> SUFFICES ASSUME IsLeaf(e.el)
               PROVE  /\ X'.string = Cut(t)
                      /\ \A i \in 1..Len(t) : t[i] = [el |-> e.el, of |-> e.of]
    BY <1>7, <1>9 DEF TextGathered
  <2>1. /\ X.string = Cut(e.text)
        /\ \A i \in 1..Len(e.text) : e.text[i] = [el |-> e.el, of |-> e.of]
    BY <1>2 DEF IInv, TextGathered
  <2>2. X'.string = Cut(t)
    BY <1>4, <1>5, <1>11, <2>1, CutIs DEF AddText, t
  <2>3. ASSUME NEW i \in 1..Len(t) PROVE t[i] = [el |-> e.el, of |-> e.of]
    <3>1. Len(e.text) \in Nat
      BY <1>5
    <3>2. CASE i \in 1..Len(e.text)
      BY <1>6, <2>1, <3>2
    <3>3. CASE i \in Len(e.text) + 1 .. Len(t)
      BY <1>4, <1>6, <3>1, <3>3
    <3> QED
      BY <1>6, <3>1, <3>2, <3>3
  <2> QED
    BY <2>2, <2>3
<1> QED
  BY <1>12, <1>13, <1>14, <1>15, <1>16, <1>17, <1>18 DEF IInv

\* An end tag changes one field of the document at most, and not its type.
LEMMA EndIs ==
  ASSUME IInv, EndElement
  PROVE  /\ open # <<>> /\ tags' = tags
         /\ D' \in Document /\ D'.type = D.type
         /\ X' = [X EXCEPT !.antId = AntIdAfter, !.level = @ - 1]
         /\ mute' = IF Last(open).el = "AntennaProperties"
                    THEN Last(open).of \in Antennas /\ X.string = <<>> ELSE mute
<1>1. CASE X.string = <<>>
  BY <1>1 DEF EndElement, IInv, Typed
<1>2. CASE X.string # <<>>
  <2>1. StoreText
    BY <1>2 DEF EndElement
  <2>2. D' \in Document /\ D'.type = D.type
    <3>1. CASE ObservationFieldEnds /\ D' = [D EXCEPT !.observation[Elem] = X.string]
      BY <3>1, StoringIs DEF ObservationFieldEnds, IInv
    <3>2. CASE AntennaFieldEnds /\ D' = [D EXCEPT !.antenna[X.antId].text[Elem] = X.string]
      BY <3>2, StoringIs DEF AntennaFieldEnds, InAntenna, IInv
    <3>3. CASE EopFieldEnds /\ D' = [D EXCEPT !.eop[X.eopId][Elem] = X.string]
      BY <3>3, StoringIs DEF EopFieldEnds, InEop, IInv
    <3>4. CASE D' = D
      BY <3>4 DEF IInv, Typed
    <3> QED
      BY <2>1, <3>1, <3>2, <3>3, <3>4 DEF StoreText
  <2> QED
    BY <2>2 DEF EndElement
<1> QED
  BY <1>1, <1>2

\* After the end of an antenna antId is nobody's number, unless the antenna was mute.
LEMMA EndKeeps == IInv /\ EndElement => IInv'
<1> SUFFICES ASSUME IInv, EndElement PROVE IInv'
  OBVIOUS
<1> DEFINE n == Len(open)
           e == Last(open)
<1>1. /\ open # <<>> /\ tags' = tags /\ D' \in Document /\ D'.type = D.type
      /\ X' = [X EXCEPT !.antId = AntIdAfter, !.level = @ - 1]
      /\ mute' = IF e.el = "AntennaProperties" THEN e.of \in Antennas /\ X.string = <<>> ELSE mute
  BY EndIs
<1>2. /\ n \in Nat \ {0} /\ e = open[n] /\ e \in OpenElement /\ open \in Seq(OpenElement)
      /\ Elem = e.el
      /\ e.el = "AntennaProperties" => n = 2 /\ D.type = "ANTPROP"
  BY <1>1, PlaceIs DEF IInv, Typed
<1>3. /\ open' \in Seq(OpenElement) /\ Len(open') = n - 1
      /\ \A i \in 1..n - 1 : open'[i] = open[i]
  <2>1. open' = SubSeq(open, 1, n - 1)
    BY DEF EndElement, Front
  <2>2. n - 1 \in Nat /\ \A i \in 1..n - 1 : open[i] \in OpenElement
    BY <1>2
  <2> DEFINE k == n - 1
  <2> HIDE DEF k
  <2>3. k \in Nat /\ k = n - 1 /\ \A i \in 1..k : open[i] \in OpenElement
    BY <2>2 DEF k
  <2> HIDE DEF n
  <2>4. /\ SubSeq(open, 1, k) \in Seq(OpenElement) /\ Len(SubSeq(open, 1, k)) = k
        /\ \A i \in 1..k : SubSeq(open, 1, k)[i] = open[i]
    <3>1. /\ SubSeq(open, 1, k) \in Seq(OpenElement)
          /\ Len(SubSeq(open, 1, k)) = IF 1 <= k THEN k - 1 + 1 ELSE 0
          /\ \A i \in 1..k - 1 + 1 : SubSeq(open, 1, k)[i] = open[1 + i - 1]
      BY <2>3, SubSeqProperties
    <3> QED
      BY <2>3, <3>1
  <2> QED
    BY <2>1, <2>3, <2>4
<1>4. /\ X' \in [level : Int, element : Seq(Name), string : Seq(Char), antId : Nat, eopId : Int]
      /\ X'.level = X.level - 1 /\ X'.element = X.element /\ X'.string = X.string
      /\ X'.antId = AntIdAfter /\ X'.eopId = X.eopId
  <2> DEFINE a == AntIdAfter
             l == X.level - 1
  <2>1. X \in [level : Int, element : Seq(Name), string : Seq(Char), antId : Nat, eopId : Int]
    BY DEF IInv, Typed
  <2>2. a \in Nat /\ l \in Int
    BY <2>1 DEF AntIdAfter
  <2>3. X' = [X EXCEPT !.antId = a, !.level = l]
    BY <1>1, <2>1
  <2> HIDE DEF a, l
  <2>4. /\ X' \in [level : Int, element : Seq(Name), string : Seq(Char), antId : Nat, eopId : Int]
        /\ X'.level = l /\ X'.element = X.element /\ X'.string = X.string
        /\ X'.antId = a /\ X'.eopId = X.eopId
    BY <2>1, <2>2, <2>3
  <2> QED
    BY <2>4 DEF a, l
<1>5. Typed'
  BY <1>1, <1>3, <1>4 DEF IInv, Typed
<1>6. Stacked'
  <2>1. X.level = n - 1 /\ Len(X.element) >= n /\ \A i \in 1..n : X.element[i] = open[i].el
    BY DEF IInv, Stacked
  <2>2. Len(X.element) \in Nat /\ X.level \in Int
    BY DEF IInv, Typed
  <2> QED
    BY <1>2, <1>3, <1>4, <2>1, <2>2 DEF Stacked
<1>7. Nested'
  <2> SUFFICES ASSUME NEW i \in 2..n - 1
               PROVE  /\ <<open'[i - 1].el, open'[i].el>> \in Nesting
                      /\ i > 2 => open'[i].of = open'[i - 1].of
    BY <1>3 DEF Nested
  <2>1. i \in 1..n - 1 /\ i - 1 \in 1..n - 1 /\ i \in 2..n
    BY <1>2
  <2> QED
    BY <1>3, <2>1 DEF IInv, Nested
<1>8. Rooted'
  <2>1. open' # <<>> => 1 \in 1..n - 1
    BY <1>2, <1>3, EmptySeq
  <2> QED
    BY <1>1, <1>3, <2>1 DEF IInv, Rooted
<1>9. DaysCounted'
  BY <1>1, <1>4 DEF IInv, DaysCounted
<1>10. n - 1 >= 2 => open'[2] = open[2]
  BY <1>2, <1>3
<1>11. \A name : Inside(name)' => n - 1 >= 2 /\ Inside(name) /\ open'[2] = open[2]
  BY <1>2, <1>3, <1>10 DEF Inside
<1>12. Inside("AntennaProperties")' => X'.antId = open'[2].of
  <2>1. Inside("AntennaProperties")' => Elem # "AntennaProperties"
    BY <1>2, <1>11
  <2> QED
    BY <1>4, <1>11, <2>1 DEF AntIdAfter, IInv, NumberedRight
<1>13. Inside("eopday")' => X'.eopId = open'[2].of
  BY <1>4, <1>11 DEF IInv, NumberedRight
<1>14. ASSUME D.type = "ANTPROP", ~Inside("AntennaProperties")', ~mute'
       PROVE  X'.antId \notin Antennas
  <2>1. CASE e.el = "AntennaProperties"
    <3>0. n = 2 /\ e = open[2]
      BY <1>2, <2>1
    <3>1. Inside("AntennaProperties") /\ e = open[2]
      BY <2>1, <3>0 DEF Inside
    <3>2. X.antId = e.of
      BY <3>1 DEF IInv, NumberedRight
    <3>3. e.of \notin Antennas \/ X.string # <<>>
      BY <1>1, <1>14, <2>1
    <3>4. 0 \notin Antennas
      BY DocumentAssumption DEF Antennas
    <3> QED
      BY <1>2, <1>4, <1>14, <2>1, <3>2, <3>3, <3>4 DEF AntIdAfter
  <2>2. CASE e.el # "AntennaProperties"
    <3>1. ~Inside("AntennaProperties")
      BY <1>2, <1>3, <1>10, <1>14, <2>2 DEF Inside
    <3>2. ~mute /\ X'.antId = X.antId
      BY <1>1, <1>2, <1>4, <1>14, <2>2 DEF AntIdAfter
    <3> QED
      BY <1>14, <3>1, <3>2 DEF IInv, NumberedRight
  <2> QED
    BY <2>1, <2>2
<1>15. NumberedRight'
  BY <1>1, <1>12, <1>13, <1>14 DEF NumberedRight, Antennas
<1>16. TextGathered'
  <2> SUFFICES ASSUME open' # <<>> PROVE ~IsLeaf(Last(open').el)
    BY DEF TextGathered
  <2>1. n - 1 \in 1..n - 1 /\ n \in 2..n
    BY <1>2, <1>3, EmptySeq
  <2>2. Last(open') = open[n - 1]
    BY <1>3, <2>1 DEF Last
  <2>3. <<open[n - 1].el, open[n].el>> \in Nesting
    BY <2>1 DEF IInv, Nested
  <2> QED
    BY <2>2, <2>3, NestingIs
<1> QED
  BY <1>5, <1>6, <1>7, <1>8, <1>9, <1>15, <1>16 DEF IInv

-----------------------------------------------------------------------------
(* The theorems. *)

\* No document has been started.
LEMMA InitIs == Init => IInv /\ FieldsBelong
<1> SUFFICES ASSUME Init PROVE IInv /\ FieldsBelong
  OBVIOUS
<1> USE DEF Init
<1>1. D \in Document /\ D.type = "UNKNOWN" /\ FieldsBelong
  <2>1. <<>> \in Seq(Char) /\ 0 \in Nat
    OBVIOUS
  <2>2. D \in Document /\ D.type = "UNKNOWN"
    BY <2>1 DEF EmptyDocument, Document
  <2>3. /\ \A f \in ObservationFields : D.observation[f] = <<>>
        /\ \A a \in Antennas, f \in AntennaFields : D.antenna[a].text[f] = <<>>
        /\ \A k \in Eops, f \in EopFields : D.eop[k][f] = <<>>
    BY DEF EmptyDocument
  <2>4. 1..Len(<<>>) = {}
    OBVIOUS
  <2>5. FieldsBelong
    BY <2>3, <2>4 DEF FieldsBelong
  <2> QED
    BY <2>2, <2>5
<1>2. Typed
  <2>1. /\ <<>> \in Seq(Char) /\ <<>> \in Seq(Name) /\ <<>> \in Seq(OpenElement)
        /\ 0 \in Nat /\ -1 \in Int /\ 0 \in Int /\ Len(<<>>) = 0
    OBVIOUS
  <2>2. 0 \in 0..MaxElements /\ 0 < VLITE_XML_CHAR_SIZE
    BY DocumentAssumption
  <2>3. X \in [level : Int, element : Seq(Name), string : Seq(Char), antId : Nat, eopId : Int]
    BY <2>1
  <2>4. tags \in [all : 0..MaxElements, eopday : 0..MaxElements]
    BY <2>2
  <2> QED
    BY <1>1, <2>1, <2>2, <2>3, <2>4 DEF Typed
<1>3. Len(open) = 0 /\ open = <<>>
  OBVIOUS
<1>4. Stacked /\ Nested /\ Rooted /\ TextGathered
  BY <1>1, <1>3 DEF Stacked, Nested, Rooted, TextGathered
<1>5. DaysCounted /\ NumberedRight
  BY <1>1, <1>3 DEF DaysCounted, NumberedRight, Inside
<1> QED
  BY <1>1, <1>2, <1>4, <1>5 DEF IInv

\* Every handler keeps its place in the document, its numbers and its buffer right.
LEMMA StepKeeps == IInv /\ [Next]_vars => IInv'
<1> SUFFICES ASSUME IInv, [Next]_vars PROVE IInv'
  OBVIOUS
<1>1. ASSUME NEW name \in Name, StartRoot(name) PROVE IInv'
  BY <1>1, RootKeeps
<1>2. ASSUME NEW name \in Name, StartOther(name) PROVE IInv'
  BY <1>2, OtherKeeps
<1>3. CASE StartSslo
  BY <1>3, SsloKeeps
<1>4. CASE StartAntenna
  BY <1>4, AntennaKeeps
<1>5. CASE StartEopday
  BY <1>5, EopdayKeeps
<1>6. CASE Text
  BY <1>6, TextKeeps
<1>7. CASE EndElement
  BY <1>7, EndKeeps
<1>8. CASE UNCHANGED vars
  <2> USE <1>8 DEF vars
  <2>1. Typed' /\ Stacked' /\ Nested' /\ Rooted' /\ DaysCounted'
    BY DEF IInv, Typed, Stacked, Nested, Rooted, DaysCounted
  <2>2. NumberedRight' /\ TextGathered'
    BY DEF IInv, NumberedRight, Inside, TextGathered, Antennas, Cut
  <2> QED
    BY <2>1, <2>2 DEF IInv
<1> QED
  BY <1>1, <1>2, <1>3, <1>4, <1>5, <1>6, <1>7, <1>8 DEF Next

\* The handlers' stack is expat's, eopId follows the days, and the buffer holds what belongs
\* in it, in every document that begins (startElement, charHandler, endElement).
THEOREM HandlersInPlace == Spec => []IInv
<1>1. Init => IInv
  BY InitIs
<1> QED
  BY <1>1, StepKeeps, PTL DEF Spec

\* The types, and that level is the depth of the element that is open, so that element[level]
\* is written within the stack for documents that are no deeper than it.
THEOREM TypeCorrect == Spec => []TypeOK
<1>1. IInv => TypeOK
  <2> SUFFICES ASSUME IInv PROVE TypeOK
    OBVIOUS
  <2>1. X.eopId \in -1..MaxElements
    <3>1. /\ tags.eopday \in 0..MaxElements /\ X.eopId \in Int
          /\ X.eopId = tags.eopday - 1 \/ X.eopId = 0
      BY DEF IInv, Typed, DaysCounted
    <3>2. MaxElements \in Nat \ {0}
      BY DocumentAssumption
    <3> QED
      BY <3>1, <3>2
  <2> QED
    BY <2>1 DEF IInv, Typed, Stacked, TypeOK
<1> QED
  BY <1>1, HandlersInPlace, PTL

-----------------------------------------------------------------------------
(* Where the text of an element goes when it ends. *)

\* The buffer at the end of a field is text of that field.
LEMMA EndOfField ==
  ASSUME IInv, open # <<>>, Elem \in ObservationFields \union AntennaFields \union EopFields
  PROVE  /\ X.string = Cut(Last(open).text)
         /\ \A i \in 1..Len(X.string) : X.string[i] = [el |-> Elem, of |-> Last(open).of]
         /\ Elem \in AntennaFields => Inside("AntennaProperties") /\ X.antId = Last(open).of
         /\ Elem \in EopFields =>
              /\ Inside("eopday") /\ X.eopId = Last(open).of /\ D.type = "ANTPROP"
              /\ ~mute => X.antId \notin Antennas
<1> DEFINE e == Last(open)
<1>1. Elem = e.el /\ e \in OpenElement
  BY PlaceIs DEF IInv
<1>2. /\ X.string = Cut(e.text)
      /\ \A i \in 1..Len(e.text) : e.text[i] = [el |-> e.el, of |-> e.of]
  BY <1>1, NestingIs DEF IInv, TextGathered
<1>3. \A i \in 1..Len(X.string) : X.string[i] = [el |-> e.el, of |-> e.of]
  <2>1. e.text \in Seq(Char) /\ <<>> \in Seq(Char)
    BY <1>1 DEF OpenElement
  <2>2. /\ Len(Cut(e.text)) <= Len(e.text) /\ Cut(e.text) \in Seq(Char)
        /\ \A i \in 1..Len(Cut(e.text)) : Cut(e.text)[i] = e.text[i]
    BY <2>1, CutIs
  <2>3. Len(Cut(e.text)) \in Nat /\ Len(e.text) \in Nat
    BY <2>1, <2>2
  <2> HIDE DEF e
  <2> QED
    BY <1>2, <2>2, <2>3
<1>4. Elem \in AntennaFields => Inside("AntennaProperties") /\ X.antId = e.of
  BY <1>1, PlaceIs DEF IInv, NumberedRight
<1>5. Elem \in EopFields =>
        Inside("eopday") /\ X.eopId = e.of /\ D.type = "ANTPROP" /\ ~Inside("AntennaProperties")
  <2>1. Elem \in EopFields => Inside("eopday") /\ D.type = "ANTPROP" /\ e.of = open[2].of
    BY <1>1, PlaceIs DEF IInv
  <2>2. Inside("eopday") => ~Inside("AntennaProperties") /\ X.eopId = open[2].of
    BY DEF IInv, NumberedRight, Inside
  <2> QED
    BY <2>1, <2>2
<1> QED
  BY <1>1, <1>2, <1>3, <1>4, <1>5 DEF IInv, NumberedRight

\* One end tag leaves the text of every field where it belongs.
LEMMA EndBelongs == IInv /\ FieldsBelong /\ EndElement => FieldsBelong'
<1> SUFFICES ASSUME IInv, FieldsBelong, EndElement PROVE FieldsBelong'
  OBVIOUS
<1> DEFINE s == X.string
<1>1. open # <<>> /\ Typed
  BY DEF EndElement, IInv
<1>2. CASE D' = D
  BY <1>2 DEF FieldsBelong, Antennas, Eops
<1>3. CASE ObservationFieldEnds /\ D' = [D EXCEPT !.observation[Elem] = s]
  <2>1. Elem \in ObservationFields
    BY <1>3 DEF ObservationFieldEnds
  <2>2. \A i \in 1..Len(s) : s[i].el = Elem
    BY <1>1, <2>1, EndOfField
  <2>3. /\ D'.antenna = D.antenna /\ D'.eop = D.eop
        /\ \A g \in ObservationFields :
             D'.observation[g] = IF g = Elem THEN s ELSE D.observation[g]
    BY <1>1, <1>3, <2>1, StoringIs
  <2> HIDE DEF s
  <2> QED
    BY <2>2, <2>3 DEF FieldsBelong, Antennas, Eops
<1>4. CASE AntennaFieldEnds /\ D' = [D EXCEPT !.antenna[X.antId].text[Elem] = s]
  <2>1. Elem \in AntennaFields /\ X.antId \in Antennas
    BY <1>4 DEF AntennaFieldEnds, InAntenna
  <2>2. \A i \in 1..Len(s) : s[i] = [el |-> Elem, of |-> X.antId]
    BY <1>1, <2>1, EndOfField
  <2>3. /\ D'.observation = D.observation /\ D'.eop = D.eop
        /\ \A b \in Antennas, g \in AntennaFields :
             D'.antenna[b].text[g] =
               IF b = X.antId /\ g = Elem THEN s ELSE D.antenna[b].text[g]
    BY <1>1, <1>4, <2>1, StoringIs
  <2> HIDE DEF s
  <2> QED
    BY <2>2, <2>3 DEF FieldsBelong, Antennas, Eops
<1>5. CASE EopFieldEnds /\ D' = [D EXCEPT !.eop[X.eopId][Elem] = s]
  <2>1. Elem \in EopFields /\ X.eopId \in Eops
    BY <1>5 DEF EopFieldEnds, InEop
  <2>2. \A i \in 1..Len(s) : s[i] = [el |-> Elem, of |-> X.eopId]
    BY <1>1, <2>1, EndOfField
  <2>3. /\ D'.observation = D.observation /\ D'.antenna = D.antenna
        /\ \A l \in Eops, g \in EopFields :
             D'.eop[l][g] = IF l = X.eopId /\ g = Elem THEN s ELSE D.eop[l][g]
    BY <1>1, <1>5, <2>1, StoringIs
  <2> HIDE DEF s
  <2> QED
    BY <2>2, <2>3 DEF FieldsBelong, Antennas, Eops
<1> QED
  BY <1>2, <1>3, <1>4, <1>5 DEF EndElement, StoreText

\* No other handler touches the text of a field.
LEMMA OnlyEndStores ==
  ASSUME IInv, [Next]_vars, ~EndElement
  PROVE  /\ D'.observation = D.observation /\ D'.eop = D.eop
         /\ \A a \in Antennas : D'.antenna[a].text = D.antenna[a].text
         /\ Len(open') >= Len(open)
<1> DEFINE Same == /\ D'.observation = D.observation /\ D'.eop = D.eop
                   /\ \A a \in Antennas : D'.antenna[a].text = D.antenna[a].text
<1>1. Len(open) \in Nat /\ open \in Seq(OpenElement) /\ D \in Document
  BY DEF IInv, Typed
<1>2. \A name, of : Opens(name, of) => Len(open') >= Len(open)
  BY <1>1 DEF Opens
<1>3. ASSUME NEW name \in Name, StartRoot(name) PROVE Same /\ Len(open') >= Len(open)
  BY <1>1, <1>2, <1>3 DEF StartRoot, Document
<1>4. ASSUME NEW name \in Name, StartOther(name) PROVE Same /\ Len(open') >= Len(open)
  BY <1>2, <1>4 DEF StartOther
<1>5. CASE StartSslo
  BY <1>1, <1>2, <1>5 DEF StartSslo, Document
<1>6. CASE StartAntenna
  <2>1. PICK id \in 0..(VLA_ANTENNA_COUNT + 1) :
          /\ Opens("AntennaProperties", id)
          /\ D' = IF id \in Antennas THEN [D EXCEPT !.antenna[id].number = id] ELSE D
    BY <1>6 DEF StartAntenna
  <2> QED
    BY <1>2, <2>1, StoringIs DEF IInv
<1>7. CASE StartEopday
  BY <1>2, <1>7 DEF StartEopday
<1>8. CASE Text
  BY <1>1, <1>8 DEF Text
<1>9. CASE UNCHANGED vars
  BY <1>1, <1>9 DEF vars
<1> QED
  BY <1>3, <1>4, <1>5, <1>6, <1>7, <1>8, <1>9 DEF Next

\* Every field of the document holds text of the element it is named after, of the antenna
\* or the day it is of (endElement, with the string and antId that startElement reset).
THEOREM TextsBelong == Spec => []FieldsBelong
<1>1. Init => FieldsBelong
  BY InitIs
<1>2. IInv /\ FieldsBelong /\ [Next]_vars => FieldsBelong'
  <2> SUFFICES ASSUME IInv, FieldsBelong, [Next]_vars PROVE FieldsBelong'
    OBVIOUS
  <2>1. CASE EndElement
    BY <2>1, EndBelongs
  <2>2. CASE ~EndElement
    <3>1. /\ D'.observation = D.observation /\ D'.eop = D.eop
          /\ \A a \in Antennas, f \in AntennaFields :
               D'.antenna[a].text[f] = D.antenna[a].text[f]
      BY <2>2, OnlyEndStores
    <3>2. \A a \in Antennas, f \in AntennaFields :
            \A i \in 1..Len(D'.antenna[a].text[f]) :
              D'.antenna[a].text[f][i] = [el |-> f, of |-> a]
      <4> SUFFICES ASSUME NEW a \in Antennas, NEW f \in AntennaFields
                   PROVE  \A i \in 1..Len(D'.antenna[a].text[f]) :
                            D'.antenna[a].text[f][i] = [el |-> f, of |-> a]
        OBVIOUS
      <4>1. D'.antenna[a].text[f] = D.antenna[a].text[f]
        BY <3>1
      <4> QED
        BY <4>1 DEF FieldsBelong
    <3> QED
      BY <3>1, <3>2 DEF FieldsBelong, Antennas, Eops
  <2> QED
    BY <2>1, <2>2
<1> QED
  BY <1>1, <1>2, HandlersInPlace, PTL DEF Spec

\* The text of an element that has a field is in it when its end tag has been handled: all of
\* it that fits, in however many pieces it came (charHandler, endElement).
THEOREM NothingIsMissed == Spec => TextsKept
<1> DEFINE e == Last(open)
           Kept == Len(open') < Len(open) /\ e.text # <<>> /\ HasField(e)
                     => FieldOf(D', e) = Cut(e.text)
<1>1. IInv /\ [Next]_vars => [Kept]_vars
  <2> SUFFICES ASSUME IInv, [Next]_vars, Len(open') < Len(open), e.text # <<>>, HasField(e)
               PROVE  FieldOf(D', e) = Cut(e.text)
    OBVIOUS
  <2>1. EndElement
    <3>1. Len(open) \in Nat
      BY DEF IInv, Typed
    <3>2. ~EndElement => Len(open') >= Len(open)
      BY OnlyEndStores
    <3>3. Len(open') \in Nat
      BY StepKeeps DEF IInv, Typed
    <3> QED
      BY <3>1, <3>2, <3>3
  <2>2. open # <<>> /\ Typed /\ Elem = e.el /\ e \in OpenElement
    BY <2>1, PlaceIs DEF EndElement, IInv
  <2>3. e.el \in ObservationFields \union AntennaFields \union EopFields
    BY DEF HasField
  <2>4. X.string = Cut(e.text) /\ X.string # <<>>
    <3>1. e.text \in Seq(Char)
      BY <2>2 DEF OpenElement
    <3> QED
      BY <2>2, <2>3, <3>1, CutIs, EndOfField
  <2>5. StoreText
    BY <2>1, <2>4 DEF EndElement
  <2>6. /\ ObservationFields \intersect (AntennaFields \union EopFields) = {}
        /\ AntennaFields \intersect EopFields = {}
    BY DocumentAssumption
  <2> HIDE DEF e
  <2>7. CASE D.type = "OBSERVATION" /\ e.el \in ObservationFields
    <3>1. D' = [D EXCEPT !.observation[Elem] = X.string] /\ Elem \in ObservationFields
      BY <2>2, <2>5, <2>7
      DEF StoreText, ObservationFieldEnds, AntennaFieldEnds, EopFieldEnds
    <3>2. D'.observation[Elem] = X.string
      BY <2>2, <3>1, StoringIs
    <3> QED
      BY <2>2, <2>4, <2>7, <3>2 DEF FieldOf
  <2>8. CASE D.type = "ANTPROP" /\ e.el \in AntennaFields /\ e.of \in Antennas
    <3>1. X.antId = e.of
      BY <2>2, <2>8, EndOfField DEF e
    <3>2. D' = [D EXCEPT !.antenna[X.antId].text[Elem] = X.string]
      BY <2>2, <2>5, <2>6, <2>8, <3>1
      DEF StoreText, ObservationFieldEnds, AntennaFieldEnds, EopFieldEnds, InAntenna, InEop
    <3>3. D'.antenna[X.antId].text[Elem] = X.string
      BY <2>2, <2>8, <3>1, <3>2, StoringIs
    <3> QED
      BY <2>2, <2>4, <2>6, <2>8, <3>1, <3>3 DEF FieldOf
  <2>9. CASE D.type = "ANTPROP" /\ e.el \in EopFields /\ e.of \in Eops /\ ~mute
    <3>1. X.eopId = e.of /\ X.antId \notin Antennas
      BY <2>2, <2>9, EndOfField DEF e
    <3>2. D' = [D EXCEPT !.eop[X.eopId][Elem] = X.string]
      BY <2>2, <2>5, <2>6, <2>9, <3>1
      DEF StoreText, ObservationFieldEnds, AntennaFieldEnds, EopFieldEnds, InAntenna, InEop
    <3>3. D'.eop[X.eopId][Elem] = X.string
      <4>1. X.eopId \in Eops /\ Elem \in EopFields
        BY <2>2, <2>9, <3>1
      <4>2. \A l \in Eops, g \in EopFields :
              [D EXCEPT !.eop[X.eopId][Elem] = X.string].eop[l][g] =
                IF l = X.eopId /\ g = Elem THEN X.string ELSE D.eop[l][g]
        BY <2>2, <4>1, StoringIs
      <4> QED
        BY <3>2, <4>1, <4>2
    <3> QED
      BY <2>2, <2>4, <2>6, <2>9, <3>1, <3>3 DEF FieldOf
  <2> QED
    BY <2>7, <2>8, <2>9 DEF HasField
<1>2. [][Kept]_vars => TextsKept
  BY DEF TextsKept
<1> HIDE DEF Kept
<1> QED
  BY <1>1, <1>2, HandlersInPlace, PTL DEF Spec
=============================================================================
