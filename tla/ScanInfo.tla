------------------------------ MODULE ScanInfo ------------------------------
(***************************************************************************)
(* The handlers that make a ScanInfoDocument of an XML message             *)
(* (executor.c, vlite_xml.c).  The XML parser, expat, calls one of them    *)
(* for every start tag, every end tag and every piece of text; the text of *)
(* an element may come in several pieces.  A message that is cut off or    *)
(* malformed just ends the calls, so every state is one in which the       *)
(* Messenger may be handed the document.                                   *)
(* The numbers in the document are kept as the text that atof or atoi is   *)
(* applied to.                                                             *)
(***************************************************************************)
EXTENDS Integers, Sequences, SequencesExt

CONSTANTS VLA_ANTENNA_COUNT, STATE_N_EOP,
          VLITE_XML_MAX_DEPTH,   \* places in the element stack
          VLITE_XML_CHAR_SIZE,   \* size of the text buffer, terminator included
          ObservationFields,     \* elements of an observation whose text is kept
          AntennaFields,         \* X, Y, Z and axisOffset in the code
          EopFields,             \* epoch, tai_utc, ut1_utc, x_pole and y_pole
          MaxElements            \* bound: elements of a message

\* The elements that hold other elements, and one the handlers do not know.
Wrappers == {"Observation", "sslo", "AntennaPropertyTable", "AntennaProperties", "eopday", "other"}

\* The names that the handlers compare with are all different, and the buffer holds a character.
ASSUME DocumentAssumption ==
  /\ {VLA_ANTENNA_COUNT, STATE_N_EOP, MaxElements} \subseteq Nat \ {0}
  /\ VLITE_XML_MAX_DEPTH \in Nat /\ VLITE_XML_MAX_DEPTH >= 3
  /\ VLITE_XML_CHAR_SIZE \in Nat /\ VLITE_XML_CHAR_SIZE >= 2
  /\ ObservationFields \intersect (Wrappers \union AntennaFields \union EopFields) = {}
  /\ AntennaFields \intersect (Wrappers \union EopFields) = {}
  /\ EopFields \intersect Wrappers = {}

VARIABLES D,     \* the ScanInfoDocument
          X,     \* the VliteXML: level, element, string, antId, eopId
          open,  \* expat's open elements, outermost first, and the text of each
          tags,  \* start tags so far, of all elements and of eopday
          mute   \* history: an antenna ended with no text after its last start tag

vars == <<D, X, open, tags, mute>>

Name == Wrappers \union ObservationFields \union AntennaFields \union EopFields

\* A character is known by the element it is the text of: its name, and the number of the
\* antenna or eopday it belongs to.
Char == [el : Name, of : Nat]

Antennas == 1..VLA_ANTENNA_COUNT
Eops == 0..(STATE_N_EOP - 1)

Document ==
  [type : {"UNKNOWN", "OBSERVATION", "ANTPROP"},
   observation : [ObservationFields -> Seq(Char)],
   usesPband : BOOLEAN,
   antenna : [Antennas -> [number : Nat, text : [AntennaFields -> Seq(Char)]]],
   eop : [Eops -> [EopFields -> Seq(Char)]]]

\* memset in parseScanInfoDocument, and in parseVliteXML.
EmptyDocument ==
  [type |-> "UNKNOWN",
   observation |-> [f \in ObservationFields |-> <<>>],
   usesPband |-> FALSE,
   antenna |-> [a \in Antennas |-> [number |-> 0, text |-> [f \in AntennaFields |-> <<>>]]],
   eop |-> [k \in Eops |-> [f \in EopFields |-> <<>>]]]

Init ==
  /\ D = EmptyDocument
  /\ X = [level |-> -1, element |-> <<>>, string |-> <<>>, antId |-> 0, eopId |-> 0]
  /\ open = <<>>
  /\ tags = [all |-> 0, eopday |-> 0]
  /\ mute = FALSE

-----------------------------------------------------------------------------
(* What expat does: elements are nested, and there is one root.            *)

\* Which element may hold which, in the documents the handlers are written for and in one
\* with a wrapping they do not know.
Nesting ==
  ({"Observation"} \X (ObservationFields \union {"sslo"}))
    \union ({"AntennaPropertyTable"} \X {"AntennaProperties", "eopday"})
    \union ({"AntennaProperties"} \X (AntennaFields \union {"other"}))
    \union ({"eopday"} \X EopFields)
    \union {<<"other", "Observation">>}

MayStart(name) ==
  /\ tags.all < MaxElements
  /\ Len(open) < VLITE_XML_MAX_DEPTH
  /\ IF open = <<>>
     THEN tags.all = 0 /\ name \in {"Observation", "AntennaPropertyTable", "other"}
     ELSE <<Last(open).el, name>> \in Nesting

Opens(name, of) ==
  /\ MayStart(name)
  /\ open' = Append(open, [el |-> name, of |-> of, text |-> <<>>])
  /\ tags' = [all |-> tags.all + 1,
              eopday |-> IF name = "eopday" THEN tags.eopday + 1 ELSE tags.eopday]

-----------------------------------------------------------------------------
(* startElement. *)

\* An error: the text of the element before is kept.
PushKeepsText(x, name) ==
  [x EXCEPT !.level = @ + 1, !.element = Append(SubSeq(@, 1, X.level + 1), name)]

\* Its beginning and its end, around what it does for some names.
Push(x, name) ==
  [x EXCEPT !.string = <<>>,
            !.level = @ + 1,
            !.element = Append(SubSeq(@, 1, X.level + 1), name)]

StartRoot(name) ==
  /\ name \in {"Observation", "AntennaPropertyTable"}
  /\ D.type = "UNKNOWN" /\ X.level = -1
  /\ Opens(name, 0)
  /\ IF name = "Observation"
     THEN D' = [D EXCEPT !.type = "OBSERVATION"] /\ X' = Push(X, name)
     ELSE /\ D' = [D EXCEPT !.type = "ANTPROP"]
          /\ X' = Push([X EXCEPT !.antId = 0, !.eopId = -1], name)
  /\ UNCHANGED mute

\* The Receiver of an sslo is 300MHz or another.
StartSslo ==
  /\ D.type = "OBSERVATION"
  /\ Opens("sslo", 0)
  /\ X' = Push(X, "sslo")
  /\ D' = D \/ D' = [D EXCEPT !.usesPband = TRUE]
  /\ UNCHANGED mute

\* parseAntennaId makes a number of the name, or 0 of one that does not begin with "ea".
\* Every antenna has a name; antId would stay that of the antenna before one without.
StartAntenna ==
  /\ D.type = "ANTPROP"
  /\ \E id \in 0..(VLA_ANTENNA_COUNT + 1) :
       /\ Opens("AntennaProperties", id)
       /\ X' = Push([X EXCEPT !.antId = id], "AntennaProperties")
       /\ D' = IF id \in Antennas THEN [D EXCEPT !.antenna[id].number = id] ELSE D
  /\ UNCHANGED mute

StartEopday ==
  /\ D.type = "ANTPROP"
  /\ Opens("eopday", tags.eopday)
  /\ X' = Push([X EXCEPT !.eopId = @ + 1], "eopday")
  /\ UNCHANGED <<D, mute>>

\* A name that startElement does nothing for, or a root inside another element.
StartOther(name) ==
  /\ \/ name \in ObservationFields \union AntennaFields \union EopFields \union {"other"}
     \/ name = "Observation" /\ X.level # -1
  /\ Opens(name, IF open = <<>> THEN 0 ELSE Last(open).of)
  /\ X' = Push(X, name)
  /\ UNCHANGED <<D, mute>>

-----------------------------------------------------------------------------
Cut(s) == SubSeq(s, 1, IF Len(s) < VLITE_XML_CHAR_SIZE THEN Len(s) ELSE VLITE_XML_CHAR_SIZE - 1)

\* An error: the text is not cut off.
AddTextUncut(s, str) == s \o str

\* charHandler: what does not fit into the buffer is cut off.
AddText(s, str) == Cut(s \o str)

\* A piece of one or two characters; the second is enough to be cut off by itself.
Text ==
  /\ open # <<>>
  /\ \E n \in 1..2 :
       LET e == Last(open)
           str == [i \in 1..n |-> [el |-> e.el, of |-> e.of]]
       IN  /\ Len(e.text) + n <= VLITE_XML_CHAR_SIZE
           /\ X' = [X EXCEPT !.string = AddText(@, str)]
           /\ open' = [open EXCEPT ![Len(open)].text = @ \o str]
  /\ UNCHANGED <<D, tags, mute>>

-----------------------------------------------------------------------------
(* endElement: the text goes where the element, and antId or eopId, say.   *)

Elem == X.element[X.level + 1]
InAntenna == X.antId \in Antennas
InEop == ~InAntenna /\ X.eopId \in Eops

\* An error: the end of an antenna does not reset antId.
AntIdKept == X.antId

AntIdAfter ==
  IF X.string # <<>> /\ D.type = "ANTPROP" /\ Elem = "AntennaProperties" THEN 0 ELSE X.antId

ObservationFieldEnds == D.type = "OBSERVATION" /\ Elem \in ObservationFields
AntennaFieldEnds == D.type = "ANTPROP" /\ InAntenna /\ Elem \in AntennaFields
EopFieldEnds == D.type = "ANTPROP" /\ InEop /\ Elem \in EopFields

StoreText ==
  \/ ObservationFieldEnds /\ D' = [D EXCEPT !.observation[Elem] = X.string]
  \/ AntennaFieldEnds /\ D' = [D EXCEPT !.antenna[X.antId].text[Elem] = X.string]
  \/ EopFieldEnds /\ D' = [D EXCEPT !.eop[X.eopId][Elem] = X.string]
  \/ ~(ObservationFieldEnds \/ AntennaFieldEnds \/ EopFieldEnds) /\ UNCHANGED D

EndElement ==
  /\ open # <<>>
  /\ IF X.string # <<>> THEN StoreText ELSE UNCHANGED D
  /\ X' = [X EXCEPT !.antId = AntIdAfter, !.level = @ - 1]
  /\ open' = Front(open)
  /\ mute' = LET e == Last(open)
             IN  IF e.el = "AntennaProperties" THEN e.of \in Antennas /\ X.string = <<>> ELSE mute
  /\ UNCHANGED tags

Next ==
  \/ \E name \in Name : StartRoot(name) \/ StartOther(name)
  \/ StartSslo \/ StartAntenna \/ StartEopday
  \/ Text
  \/ EndElement

Spec == Init /\ [][Next]_vars

-----------------------------------------------------------------------------
TypeOK ==
  /\ D \in Document
  /\ X.level = Len(open) - 1
  /\ \A i \in 1..Len(open) : X.element[i] = open[i].el
  /\ X.string \in Seq(Char) /\ Len(X.string) < VLITE_XML_CHAR_SIZE
  /\ X.antId \in Nat
  /\ X.eopId \in -1..MaxElements

(***************************************************************************)
(* Whatever a field of the document holds is text of the element it is     *)
(* named after and, for an antenna or an eopday, of that antenna's or      *)
(* eopday's element: no text is carried over into the next element, to an  *)
(* antenna with a number out of range, or to another day.  (A parent's     *)
(* text is gathered up with that of its last child.)                       *)
(***************************************************************************)
FieldsBelong ==
  /\ \A f \in ObservationFields :
       \A i \in 1..Len(D.observation[f]) : D.observation[f][i].el = f
  /\ \A a \in Antennas, f \in AntennaFields :
       \A i \in 1..Len(D.antenna[a].text[f]) : D.antenna[a].text[f][i] = [el |-> f, of |-> a]
  /\ \A k \in Eops, f \in EopFields :
       \A i \in 1..Len(D.eop[k][f]) : D.eop[k][f][i] = [el |-> f, of |-> k]

\* The document has a field for the text of the element e.  An eopday that follows a mute
\* antenna has none, as its fields are looked for in the antenna.
HasField(e) ==
  \/ D.type = "OBSERVATION" /\ e.el \in ObservationFields
  \/ D.type = "ANTPROP" /\ e.el \in AntennaFields /\ e.of \in Antennas
  \/ D.type = "ANTPROP" /\ e.el \in EopFields /\ e.of \in Eops /\ ~mute

FieldOf(d, e) ==
  IF e.el \in ObservationFields THEN d.observation[e.el]
  ELSE IF e.el \in AntennaFields THEN d.antenna[e.of].text[e.el] ELSE d.eop[e.of][e.el]

(***************************************************************************)
(* The text of an element that has a field is in that field when its end   *)
(* tag has been handled, all of it up to the size of the buffer, in        *)
(* however many pieces it came and whatever came before it.                *)
(***************************************************************************)
TextsKept ==
  [][ LET e == Last(open) IN
        Len(open') < Len(open) /\ e.text # <<>> /\ HasField(e)
          => FieldOf(D', e) = Cut(e.text) ]_vars
=============================================================================
