------------------------------ MODULE MCStores ------------------------------
(***************************************************************************)
(* What one thread works on: unordered_vector_t, the interning vectors, the *)
(* allocators, the wide integers, the texts of numbers and the views of    *)
(* texts.  A behaviour is about one of them; the keys of unordered_vector_t *)
(* come from one family, so that its tree is wide, deep or forked.         *)
(***************************************************************************)
EXTENDS UnorderedVector, HashDigits, Allocators, WideInts

CONSTANTS
  Parts,            \* what a behaviour may be about
  Hashes, Filling,  \* of the interning vectors
  Families,         \* sets of keys used together
  Buffers, Needles, Encodings, SignedBytes,           \* of the views
  Bits, Ten, Chunk, CellBits, Numerals, Radixes,      \* of the conversions
  FloatWord, MantissaBits, ExponentBits, PowRange, Accuracies, Others  \* of the reals

VARIABLES interned, trie,
          numeral, double,
          buffer, view, needle,
          part,
          family  \* of the map

In == INSTANCE Interning
Vw == INSTANCE Views
De == INSTANCE Floats

mapVars == vars
internVars == <<interned, trie>>
viewVars   == <<buffer, view, needle>>
textVars   == <<numeral, double, viewVars>>
storeVars  == <<mapVars, internVars, allocVars, operandVars, textVars>>

IdleViews == buffer = <<>> /\ view = <<>> /\ needle = <<>>

MCInit ==
  /\ part \in Parts
  /\ family \in IF part = "map" THEN Families ELSE {{}}
  /\ Init /\ In!IInit /\ OInit /\ De!DInit
  /\ IF part = "reals" THEN De!FlInit ELSE double = De!NoDouble
  /\ IF part = "texts" THEN Vw!VInit ELSE IdleViews
  /\ IF part = "memory" THEN AInit
     ELSE pool = NewPool(1) /\ bump = NewBump(1, TRUE) /\ heap = {} /\ live = <<>>
MCNext ==
  /\ \/ /\ \E k \in family : Erase(k) \/ \E v \in Values : Insert(k, v)
        /\ UNCHANGED <<internVars, allocVars, operandVars, textVars>>
     \/ part = "interning" /\ In!INext /\ UNCHANGED <<mapVars, allocVars, operandVars, textVars>>
     \/ part = "memory" /\ ANext /\ UNCHANGED <<mapVars, internVars, operandVars, textVars>>
     \/ part = "numbers" /\ ONext /\ UNCHANGED <<mapVars, internVars, allocVars, textVars>>
     \/ /\ part = "numerals" /\ De!DNext
        /\ UNCHANGED <<mapVars, internVars, allocVars, operandVars, double, viewVars>>
     \/ /\ part = "reals" /\ De!FlNext
        /\ UNCHANGED <<mapVars, internVars, allocVars, operandVars, numeral, viewVars>>
     \/ /\ part = "texts" /\ Vw!VNext
        /\ UNCHANGED <<mapVars, internVars, allocVars, operandVars, numeral, double>>
  /\ UNCHANGED <<part, family>>
MCSpec == MCInit /\ [][MCNext]_<<storeVars, part, family>>

\* Keys are their own hashes: a sequence of words, the last one repeated
MCHash(k, seed) == LET n == 1 + seed \div Word IN k[IF n <= Len(k) THEN n ELSE Len(k)]

MCKeys == UNION Families
Forked == {<< <<0, 0, 0>> >>, << <<0, 1, 0>> >>, << <<1, 0, 0>> >>, << <<1, 0, 1>> >>}
MCFamilies ==
  {{<< <<a, b, 0>> >> : a, b \in {0, 1}},
   {<< <<0, 0, 0>> >>, << <<0, 0, 1>> >>, << <<0, 1, 0>> >>, << <<1, 0, 0>> >>},
   Forked}
PruneFamilies == {Forked}
MCFilling == << <<0, 0, 0, 0>>, <<0, 2, 0, 0>>, <<0, 4, 0, 0>>, <<0, 6, 0, 0>> >>
MCHashes ==
  {<<0, 5, 0, 0>>, <<1, 1, 0, 0>>, <<2, 7, 1, 0>>, <<2, 7, 5, 0>>, <<2, 0, 0, 0>>,
   <<0, 4, 1, 0>>}

\* The longer a number, the fewer the words it is made of; halves of five words
\* are not of one length
MCOperands ==
  UNION {[1 .. n -> CASE n = 1 -> 0 .. 3 [] n = 2 -> {0, 1, 3} [] OTHER -> {0, 3}] : n \in 1 .. 4}
  \cup {Append(x, 3) : x \in [1 .. 4 -> {0, 3}]}

\* One request for each way through the allocators
Plain ==
  [size |-> 1, align |-> 0, via |-> "pool", exact |-> FALSE, best |-> TRUE, manual |-> TRUE,
   safe |-> FALSE, alloca |-> FALSE, monotonic |-> FALSE, cacheOnly |-> FALSE,
   forwards |-> TRUE, defaultForwards |-> TRUE]
MCRequests ==
  {Plain,
   [Plain EXCEPT !.size = 3, !.best = FALSE, !.forwards = FALSE],
   [Plain EXCEPT !.size = 2, !.align = 2, !.exact = TRUE],
   [Plain EXCEPT !.size = 4, !.align = 1, !.manual = FALSE, !.monotonic = TRUE,
                 !.defaultForwards = FALSE],
   [Plain EXCEPT !.size = 3, !.align = 1, !.via = "bump", !.alloca = TRUE, !.monotonic = TRUE,
                 !.exact = TRUE],
   [Plain EXCEPT !.size = 3, !.via = "bump", !.alloca = TRUE, !.cacheOnly = TRUE],
   [Plain EXCEPT !.size = 2, !.align = 1, !.safe = TRUE]}

\* Words of letters, followed by a terminator or by another letter
Words(letters, n) == [1 .. n -> letters]
MCBuffers == {b \o <<x>> : b \in UNION {Words({1, 200}, n) : n \in 1 .. 4}, x \in {0, 1}}
MCNeedles == UNION {Words({1, 200}, n) : n \in 0 .. 2} \cup {<<1, 1, 200>>}

\* Texts of reals (14 is an e, 36 a minus, 38 a point), of integers, and of wide
\* integers with a digit or two
MCNumerals ==
  UNION {Words({0, 2, 14, 36, 38}, n) : n \in 1 .. 4}
  \cup {<<2, 38>> \o t : t \in Words({0, 2, 14, 36}, 3)}
  \cup UNION {Words({0, 1, 2, 5, 9, 35}, n) : n \in 1 .. 3}
  \cup {[i \in 1 .. n |-> IF i \in {1, p} THEN 2 ELSE 0] : n \in 1 .. 18, p \in 1 .. 18}

\* Numbers of few bits and of many, with and without a fraction
MCOthers ==
  {[m |-> m, e |-> e] : m \in {0, 1, -1, 3, -5, 100, -4095, 4097, 8191, -8190, 8129},
                        e \in {-16, -12, -3, 0, 2}}

-----------------------------------------------------------------------------
\* An interning vector numbers its hashes in the order they came, and the blocks
\* of its nodes share no cell: inserted hashes are found through splits, moved
\* blocks and blocks cut up for reuse.
NumbersHashes == part = "interning" => In!NumbersHashes /\ In!BlocksPartitioned

TextsAreFound == part = "texts" => Vw!TextsAreFound
ConversionsAgree ==
  /\ part = "numerals" => De!ConversionsAgree
  /\ part = "reals" => De!FloatsAgree
=============================================================================
