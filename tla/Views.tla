-------------------------------- MODULE Views --------------------------------
(***************************************************************************)
(* basic_string_view_t and the searches of byte_traits_t: a view into a    *)
(* buffer is narrowed step by step and searched.                           *)
(***************************************************************************)
EXTENDS Integers, Sequences, SequencesExt, FiniteSetsExt

CONSTANTS
  Buffers,      \* the bytes views look at
  Needles,      \* the texts looked for
  Encodings,    \* of the views
  SignedBytes   \* compile-time comparison takes bytes from here on for negative

VARIABLES buffer, view, needle

viewVars == <<buffer, view, needle>>

Nul == 0
npos == 2 ^ 20                \* uintlen_t(-1)
Least(a, b) == IF a < b THEN a ELSE b

---------------------------------------------------------------------------
(* byte_traits_t: characters are counted from 0                            *)

At(t, i) == t[i + 1]
Signed(byte) == IF byte < SignedBytes THEN byte ELSE byte - 256

\* memcmp, or the loop of constant evaluation, which compares chars
RECURSIVE PvCompare(_, _, _, _)
PvCompare(rhs, lhs, len, constant) ==
  IF len = 0 THEN 0
  ELSE IF Head(rhs) # Head(lhs)
  THEN IF (IF constant THEN Signed(Head(rhs)) < Signed(Head(lhs)) ELSE Head(rhs) < Head(lhs))
       THEN -1 ELSE 1
  ELSE PvCompare(Tail(rhs), Tail(lhs), len - 1, constant)
SameText(a, b, len) == PvCompare(a, b, len, FALSE) = 0
Compare(lhs, rhs, constant) ==
  LET ret == PvCompare(lhs, rhs, Least(Len(lhs), Len(rhs)), constant)
  IN  IF ret # 0 THEN ret
      ELSE IF Len(lhs) < Len(rhs) THEN -1 ELSE IF Len(lhs) > Len(rhs) THEN 1 ELSE 0
From(t, i) == SubSeq(t, i + 1, Len(t))

\* the first c at or after i and before last
PvFind(t, i, last, c) ==
  LET hits == {k \in i .. last - 1 : At(t, k) = c} IN IF hits = {} THEN npos ELSE Min(hits)
Holds(t, c) == PvFind(t, 0, Len(t), c) # npos

RECURSIVE Candidate(_, _, _)
Candidate(hay, from, needle0) ==
  LET k == PvFind(hay, from, Len(hay) - Len(needle0) + 1, Head(needle0))
  IN  IF k = npos THEN npos
      ELSE IF SameText(From(hay, k), needle0, Len(needle0)) THEN k
      ELSE Candidate(hay, k + 1, needle0)
Find(hay, offset, needle0) ==
  IF Len(needle0) > Len(hay) \/ offset > Len(hay) - Len(needle0) THEN npos
  ELSE IF needle0 = <<>> THEN offset
  ELSE Candidate(hay, offset, needle0)
FindCh(hay, offset, c) == IF offset < Len(hay) THEN PvFind(hay, offset, Len(hay), c) ELSE npos

\* the last of some places from k down to 0, and the first from an offset on
LastFrom(k, places) == LET hits == places \cap 0 .. k IN IF hits = {} THEN npos ELSE Max(hits)
FirstFrom(offset, places) ==
  LET hits == {k \in places : k >= offset} IN IF hits = {} THEN npos ELSE Min(hits)

RFind(hay, offset, needle0) ==
  IF needle0 = <<>> THEN Least(offset, Len(hay))
  ELSE IF Len(hay) < Len(needle0) THEN npos
  ELSE LastFrom(Least(offset, Len(hay) - Len(needle0)),
                {k \in 0 .. Len(hay) - Len(needle0) :
                   At(hay, k) = Head(needle0) /\ SameText(From(hay, k), needle0, Len(needle0))})
Held(hay, set) == {k \in 0 .. Len(hay) - 1 : Holds(set, At(hay, k))}
NotHeld(hay, set) == (0 .. Len(hay) - 1) \ Held(hay, set)
LastWanted(hay, offset, places) ==
  IF hay = <<>> THEN npos ELSE LastFrom(Least(offset, Len(hay) - 1), places)
RFindCh(hay, offset, c) == LastWanted(hay, offset, Held(hay, <<c>>))
RFindNotCh(hay, offset, c) == LastWanted(hay, offset, NotHeld(hay, <<c>>))
FindLastOf(hay, offset, set) ==
  IF set = <<>> THEN npos ELSE LastWanted(hay, offset, Held(hay, set))
FindLastNotOf(hay, offset, set) == LastWanted(hay, offset, NotHeld(hay, set))
FindFirstOf(hay, offset, set) ==
  IF set = <<>> \/ offset >= Len(hay) THEN npos ELSE FirstFrom(offset, Held(hay, set))
FindFirstNotOf(hay, offset, set) == FirstFrom(offset, NotHeld(hay, set))
FindNotCh(hay, offset, c) == FirstFrom(offset, NotHeld(hay, <<c>>))

StartsWith(lhs, rhs) == Len(lhs) >= Len(rhs) /\ SameText(lhs, rhs, Len(rhs))
EndsWith(lhs, rhs) == Len(lhs) >= Len(rhs) /\ SameText(From(lhs, Len(lhs) - Len(rhs)), rhs, Len(rhs))
HasText(lhs, rhs) == Find(lhs, 0, rhs) # npos

---------------------------------------------------------------------------
(* basic_string_view_t                                                     *)

TextOf(v) == SubSeq(buffer, v.ptr + 1, v.ptr + v.len)

\* an offset and a count beyond the end are cut to it
RightOffset(v, offset) == Least(offset, v.len)
RightCount(v, offset, count) ==
  Least(RightOffset(v, offset) + Least(count, v.len), v.len) - RightOffset(v, offset)
\* mutant: a terminator is taken along whatever is cut off
SubviewTerminated(v, offset, count) ==
  [v EXCEPT !.ptr = @ + RightOffset(v, offset), !.len = RightCount(v, offset, count)]

Subview(v, offset, count) ==
  LET o == RightOffset(v, offset)
      c == RightCount(v, offset, count)
  IN  [v EXCEPT !.ptr = @ + o, !.len = c, !.hasNull = @ /\ o + c = v.len]
\* operator(): from begin to end
Between(v, begin, end) == Subview(v, begin, end - Least(end, begin))

AsSubview(offset, count) == view' = Subview(view, offset, count) /\ UNCHANGED <<buffer, needle>>
Sliced(begin, end) == view' = Between(view, begin, end) /\ UNCHANGED <<buffer, needle>>
RemovePrefix(n) == AsSubview(n, npos)
RemoveSuffix(n) == AsSubview(0, view.len - Least(n, view.len))
PopBack == view.len > 0 /\ RemoveSuffix(1)
PopFront == view.len > 0 /\ RemovePrefix(1)

\* a literal, whose terminator is left out, or bytes of which nothing is known
VInit ==
  /\ buffer \in Buffers /\ needle \in Needles
  /\ view \in {[ptr |-> 0, len |-> Len(buffer) - 1, hasNull |-> Last(buffer) = Nul, encoding |-> e] :
                 e \in Encodings}
VNext ==
  \/ \E offset \in 0 .. view.len + 1, count \in (0 .. view.len + 1) \cup {npos} :
       AsSubview(offset, count) \/ Sliced(offset, count)
  \/ \E n \in 1 .. view.len + 1 : RemovePrefix(n) \/ RemoveSuffix(n)
  \/ PopBack \/ PopFront

\* views of different encodings have nothing in common
IfSame(v, w, found, otherwise) == IF v.encoding = w.encoding THEN found ELSE otherwise
CompareViews(v, w) == IfSame(v, w, Compare(TextOf(v), TextOf(w), FALSE), "unordered")
Equal(v, w) == v.len = w.len /\ CompareViews(v, w) = 0
FindView(v, w, offset) == IfSame(v, w, Find(TextOf(v), offset, TextOf(w)), npos)
AsCStr(v) == IF v.hasNull THEN v.ptr ELSE npos      \* or no pointer

---------------------------------------------------------------------------
(* What is promised                                                        *)

Mirrored(t, k, n) == IF k = npos THEN npos ELSE Len(t) - n - k
Letters(t) == {t[k] : k \in DOMAIN t}
Offsets(t) == (0 .. Len(t) + 1) \cup {npos}

SubtextsHold(t, w) ==
  LET places == {k \in 0 .. Len(t) - Len(w) : SubSeq(t, k + 1, k + Len(w)) = w}
  IN  /\ \A o \in Offsets(t) :
           /\ Find(t, o, w) = Min({k \in places : k >= o} \cup {npos})
           /\ o >= Len(t) - Len(w) \/ w = <<>> \/
                RFind(t, o, w) = Mirrored(t, Find(Reverse(t), Len(t) - Len(w) - o, Reverse(w)), Len(w))
           /\ places = {} \/ o < Len(t) - Len(w) \/ RFind(t, o, w) = Max(places)
      /\ HasText(t, w) <=> places # {}
      /\ StartsWith(t, w) <=> 0 \in places
      /\ EndsWith(t, w) <=> EndsWith(w \o t, w) /\ StartsWith(Reverse(t), Reverse(w))

LettersHold(t, w) ==
  \A o \in Offsets(t) :
    LET first == FindFirstOf(t, o, w)      none == FindFirstNotOf(t, o, w)
        last  == FindLastOf(t, o, w)       over == FindLastNotOf(t, o, w)
    IN  /\ o < Len(t) => Min({first, none}) = o /\ first # none
        /\ o < Len(t) => (last = o <=> first = o) /\ (over = o <=> none = o)
        /\ o >= Len(t) => first = npos /\ none = npos
        /\ o >= Len(t) /\ t # <<>> => Len(t) - 1 \in {last, over} /\ last # over
        /\ first # npos /\ first > 0 => FindLastNotOf(t, first - 1, w) = first - 1 \/ first = o
        /\ \A c \in Letters(w) :
             /\ FindCh(t, o, c) = Find(t, o, <<c>>) /\ FindCh(t, o, c) = FindFirstOf(t, o, <<c>>)
             /\ RFindCh(t, o, c) = RFind(t, o, <<c>>) /\ RFindCh(t, o, c) = FindLastOf(t, o, <<c>>)
             /\ FindNotCh(t, o, c) = FindFirstNotOf(t, o, <<c>>)
             /\ RFindNotCh(t, o, c) = FindLastNotOf(t, o, <<c>>)

OrderHolds(t, w) ==
  \A constant \in BOOLEAN :
    /\ Compare(t, w, constant) = 0 <=> t = w
    /\ Compare(w, t, constant) = -Compare(t, w, constant)
    /\ StartsWith(t, w) /\ t # w => Compare(t, w, constant) = 1

\* A view stays inside its buffer however it is narrowed, and where it says that a
\* terminator follows, one does.  Searching finds the first and the last place
\* there is, the searches for one character agree with those for a text and for a
\* set, forwards and backwards mirror each other, and both orders are orders.
TextsAreFound ==
  LET t == TextOf(view)
      v == [ptr |-> 0, len |-> 0, hasNull |-> FALSE, encoding |-> view.encoding]
  IN  /\ 0 <= view.ptr /\ 0 <= view.len /\ view.ptr + view.len <= Len(buffer)
      /\ AsCStr(view) # npos => At(buffer, AsCStr(view) + view.len) = Nul
      /\ SubtextsHold(t, needle) /\ LettersHold(t, needle) /\ OrderHolds(t, needle)
      /\ FindView(view, v, 0) = 0 /\ (Equal(view, v) <=> view.len = 0)
=============================================================================
