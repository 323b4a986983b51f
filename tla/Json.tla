---------------------------------- MODULE Json ----------------------------------
(***************************************************************************)
(* The JSON values of src/base/json.cc: how they are written               *)
(* (JsonNode::Serialize) and how a text is read back (JsonParser, by       *)
(* recursive descent with one token of look-ahead).                        *)
(*                                                                         *)
(* A text is a sequence of marks: the punctuation, the quote, a space, the *)
(* digits, the minus sign, the three keywords, and letters.  A value is a  *)
(* record with one field, named for its type; what a string holds, and the *)
(* name of a member, is a text.                                            *)
(***************************************************************************)
EXTENDS Naturals, Sequences, FiniteSets

CONSTANTS
    Marks,       \* the marks that texts are made of
    MaxLength,   \* bound: the marks of a text
    Values       \* bound: the values that are written

VARIABLES
    text,        \* what is in the stream
    written      \* the value it was written from, {} if it was typed

vars == <<text, written>>

Keywords == {"true", "false", "null"}
Digits   == {"0", "7"}
AsDigit(d) == IF d = "7" THEN 7 ELSE 0

Number(n) == [number |-> n]
String(s) == [string |-> s]
Object(members) == [object |-> members]
Array(nodes) == [array |-> nodes]
Keyword(k) == [keyword |-> k]

Holds(v, type) == DOMAIN v = {type}

-----------------------------------------------------------------------------
(* Serialize.  The lines and the indentation are spaces.  Nothing inside a
   string is escaped.  A map lists its members in one order. *)

RECURSIVE Serialize(_), DigitsOf(_), MembersOf(_, _), NodesOf(_, _)

DigitsOf(n) == IF n < 10 THEN <<IF n = 7 THEN "7" ELSE "0">>
               ELSE DigitsOf(n \div 10) \o DigitsOf(n % 10)

Quote(s) == <<"quote">> \o s \o <<"quote">>
First(members) == CHOOSE m \in DOMAIN members : TRUE
Without(members, m) == [x \in DOMAIN members \ {m} |-> members[x]]

Separator(rest) == IF rest = 0 THEN <<" ">> ELSE <<",", " ">>

MembersOf(members, count) ==
    IF count = 0 THEN <<>>
    ELSE LET m == First(members) IN
         Quote(m) \o <<":", " ">> \o Serialize(members[m])
             \o Separator(count - 1) \o MembersOf(Without(members, m), count - 1)

NodesOf(nodes, i) ==
    IF i > Len(nodes) THEN <<>>
    ELSE Serialize(nodes[i]) \o Separator(Len(nodes) - i) \o NodesOf(nodes, i + 1)

Serialize(v) ==
    CASE Holds(v, "object")  -> <<"{", " ">> \o
                                MembersOf(v.object, Cardinality(DOMAIN v.object)) \o <<"}">>
      [] Holds(v, "array")   -> <<"[", " ">> \o NodesOf(v.array, 1) \o <<"]">>
      [] Holds(v, "string")  -> Quote(v.string)
      [] Holds(v, "number")  -> DigitsOf(v.number)
      [] Holds(v, "keyword") -> <<v.keyword>>

-----------------------------------------------------------------------------
(* The lexer: a token and what is left of the text. *)

RECURSIVE SkipWhitespace(_), ReadString(_, _), ReadNumber(_, _)

SkipWhitespace(s) ==
    IF s # <<>> /\ Head(s) = " " THEN SkipWhitespace(Tail(s)) ELSE s

None(s) == [token |-> "none", rest |-> s]
Token(t, s) == [token |-> t, rest |-> s]

ReadString(s, read) ==
    IF s = <<>> THEN None(s)
    ELSE IF Head(s) = "quote" THEN [token |-> "string", text |-> read, rest |-> Tail(s)]
    ELSE ReadString(Tail(s), Append(read, Head(s)))

ReadNumber(s, read) ==
    IF s # <<>> /\ Head(s) \in Digits
    THEN ReadNumber(Tail(s), 10 * read + AsDigit(Head(s)))
    ELSE [token |-> "number", number |-> read, rest |-> s]

NextToken(stream) ==
    LET s == SkipWhitespace(stream) IN
    IF s = <<>> THEN None(s)
    ELSE CASE Head(s) \in {"{", "}", "[", "]", ",", ":"} \cup Keywords ->
                  Token(Head(s), Tail(s))
           [] Head(s) = "quote"   -> ReadString(Tail(s), <<>>)
           [] Head(s) \in Digits  -> ReadNumber(s, 0)
           [] OTHER               -> None(s)

-----------------------------------------------------------------------------
(* The parser: the value read, if there is no syntax error, and the rest. *)

Error == [ok |-> FALSE]
Read(v, s) == [ok |-> TRUE, node |-> v, rest |-> s]

(* Set: the last one of two members with one name stays. *)
Set(members, m, v) ==
    [x \in DOMAIN members \cup {m} |-> IF x = m THEN v ELSE members[x]]

RECURSIVE ParseNode(_), ParseObject(_, _), ParseArray(_, _)

ParseNode(s) ==
    LET t == NextToken(s) IN
    CASE t.token = "{"       -> ParseObject(NextToken(t.rest), <<>>)
      [] t.token = "["       -> IF NextToken(t.rest).token = "]"
                                THEN Read(Array(<<>>), NextToken(t.rest).rest)
                                ELSE ParseArray(t.rest, <<>>)
      [] t.token = "string"  -> Read(String(t.text), t.rest)
      [] t.token = "number"  -> Read(Number(t.number), t.rest)
      [] t.token \in Keywords -> Read(Keyword(t.token), t.rest)
      [] OTHER               -> Error

(* A plausible bug: whatever follows a member is taken for a comma. *)
AfterAny(t, end) == t.token # end
AfterMember(t, end) == t.token = ","

(* A member starts with the token t, or the object ends with it: also after
   a comma. *)
ParseObject(t, members) ==
    IF t.token = "}" THEN Read(Object(members), t.rest)
    ELSE IF t.token # "string" THEN Error
    ELSE LET colon == NextToken(t.rest)
             v     == ParseNode(colon.rest)
         IN  IF colon.token # ":" \/ ~v.ok THEN Error
             ELSE LET after == NextToken(v.rest)
                      more  == Set(members, t.text, v.node)
                  IN  IF AfterMember(after, "}") THEN ParseObject(NextToken(after.rest), more)
                      ELSE IF after.token = "}" THEN Read(Object(more), after.rest)
                      ELSE Error

ParseArray(s, nodes) ==
    LET v == ParseNode(s) IN
    IF ~v.ok THEN Error
    ELSE LET after == NextToken(v.rest)
             more  == Append(nodes, v.node)
         IN  IF AfterMember(after, "]") THEN ParseArray(after.rest, more)
             ELSE IF after.token = "]" THEN Read(Array(more), after.rest)
             ELSE Error

(* Parse.  What follows the value is not looked at. *)
Parse(s) == ParseNode(s)

-----------------------------------------------------------------------------
(* Texts: written from a value, or typed mark by mark. *)

Init == \/ text = <<>> /\ written = {}
        \/ \E v \in Values : text = Serialize(v) /\ written = {v}

Type(m) ==
    /\ written = {} /\ Len(text) < MaxLength
    /\ text' = Append(text, m)
    /\ UNCHANGED written

Next == \E m \in Marks : Type(m)
Spec == Init /\ [][Next]_vars

-----------------------------------------------------------------------------
RECURSIVE Texts(_)
Texts(v) == CASE Holds(v, "object") -> (DOMAIN v.object) \cup
                                       UNION {Texts(v.object[m]) : m \in DOMAIN v.object}
              [] Holds(v, "array")  -> UNION {Texts(v.array[i]) : i \in DOMAIN v.array}
              [] Holds(v, "string") -> {v.string}
              [] OTHER              -> {}

HasQuote(s) == \E i \in DOMAIN s : s[i] = "quote"

(* A value is read back as it was written, unless a string in it holds a
   quote (JsonObject::Serialize, JsonParser::Parse). *)
RoundTrip == \A v \in written :
    (\A s \in Texts(v) : ~HasQuote(s)) => Parse(text) = Read(v, <<>>)

(* The texts of the grammar, by its productions: V a value, M the members of
   an object, N the nodes of an array. *)
Spaces(s) == \A i \in DOMAIN s : s[i] = " "
Cut(s, i, j) == SubSeq(s, i, j)

RECURSIVE IsValue(_), IsMembers(_), IsNodes(_)
Trimmed(s) == LET in == {i \in DOMAIN s : s[i] # " "}
              IN  IF in = {} THEN <<>>
                  ELSE Cut(s, CHOOSE i \in in : \A j \in in : i <= j,
                              CHOOSE i \in in : \A j \in in : i >= j)
Inner(s) == Cut(s, 2, Len(s) - 1)
Enclosed(s, open, close) == Len(s) >= 2 /\ s[1] = open /\ s[Len(s)] = close
IsString(s) == Enclosed(s, "quote", "quote") /\ ~HasQuote(Inner(s))

IsValue(whole) ==
    LET s == Trimmed(whole) IN
    \/ s # <<>> /\ \A i \in DOMAIN s : s[i] \in Digits
    \/ Len(s) = 1 /\ s[1] \in Keywords
    \/ IsString(s)
    \/ Enclosed(s, "{", "}") /\ (Spaces(Inner(s)) \/ IsMembers(Inner(s)))
    \/ Enclosed(s, "[", "]") /\ (Spaces(Inner(s)) \/ IsNodes(Inner(s)))

IsMember(s) == \E i \in DOMAIN s :
    s[i] = ":" /\ IsString(Trimmed(Cut(s, 1, i - 1))) /\ IsValue(Cut(s, i + 1, Len(s)))

(* The last member may be followed by a comma. *)
IsMembers(s) ==
    \/ IsMember(s)
    \/ \E i \in DOMAIN s :
          /\ s[i] = "," /\ IsMember(Cut(s, 1, i - 1))
          /\ LET rest == Cut(s, i + 1, Len(s)) IN Spaces(rest) \/ IsMembers(rest)

IsNodes(s) ==
    \/ IsValue(s)
    \/ \E i \in DOMAIN s :
          s[i] = "," /\ IsValue(Cut(s, 1, i - 1)) /\ IsNodes(Cut(s, i + 1, Len(s)))

(* The parser accepts the texts of JSON, whatever follows them, and two
   things more: a comma after the last member of an object, and a quote, a
   line or any other mark inside a string as it stands; but no negative
   number and no fraction (JsonParser). *)
AcceptsJson ==
    LET p == Parse(text) IN
    IF p.ok THEN IsValue(Cut(text, 1, Len(text) - Len(p.rest)))
    ELSE \A n \in 1..Len(text) : ~IsValue(Cut(text, 1, n))

(* What the program writes it can read, and what it reads is JSON. *)
JsonInv == RoundTrip /\ AcceptsJson
=============================================================================
