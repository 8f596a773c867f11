------------------------------- MODULE Codes -------------------------------
(***************************************************************************)
(* A transfer code on its way from one user to the other: generated or     *)
(* chosen, shown, read out and typed again, parsed, and looked over for    *)
(* typing errors (src/code/mod.rs, suggest of src/code/wordlist.rs).  A    *)
(* text is a sequence of characters.                                       *)
(***************************************************************************)
EXTENDS Naturals, FiniteSets, Sequences, SequencesExt

CONSTANTS
  Alphabet,       \* the characters of rooms and words, in order
  Accented,       \* other small letters
  Lowercase,      \* for each capital letter what to_lowercase makes of it
  Words,          \* the word list, in order
  Rooms,          \* rooms that may be drawn
  Chosen,         \* what users may give to --code
  UniquePrefix,   \* UNIQUE_PREFIX
  FewestWords, MostWords, MaxRoomLen, MinSecretChars,
  MaxEdits        \* how often a text is changed on its way

VARIABLES
  original,  \* the sender's TransferCode, or why there is none
  drawn,     \* was it generated
  text,      \* what is shown, and then typed
  typo,      \* the word that was misspelt and how, or <<>>
  edits,     \* how often the text has been changed
  entered    \* the receiver's TransferCode, or why there is none

codesVars == <<original, drawn, text, typo, edits, entered>>

Separators == {"-", "_", " "}
Small == Range(Alphabet) \cup Accented
Nothing == [room |-> <<>>, secret |-> <<>>, error |-> "none yet"]
Refused(error) == [room |-> <<>>, secret |-> <<>>, error |-> error]
Code(room, secret) == [room |-> room, secret |-> secret, error |-> "no"]
IsCode(c) == c.error = "no"

-----------------------------------------------------------------------------
\* Mutant of Absorb: every separator is one.
AbsorbEach(s, c) ==
  IF c \in Separators THEN [s EXCEPT !.out = IF @ = <<>> THEN @ ELSE Append(@, "-")]
  ELSE [out |-> s.out \o (IF c \in Small THEN <<c>> ELSE Lowercase[c]), pending |-> FALSE]

\* One character of normalize. A separator is kept back until something
\* follows it, and forgotten if nothing has come before.
Absorb(s, c) ==
  IF c \in Separators THEN [s EXCEPT !.pending = s.out # <<>>]
  ELSE [out |-> s.out \o (IF s.pending THEN <<"-">> ELSE <<>>)
                      \o (IF c \in Small THEN <<c>> ELSE Lowercase[c]),
        pending |-> FALSE]

Absorbed(s, t) ==
  LET r[n \in 0..Len(t)] == IF n = 0 THEN s ELSE Absorb(r[n - 1], t[n]) IN r[Len(t)]
NormalizeText(t) == Absorbed([out |-> <<>>, pending |-> FALSE], t).out

\* RoomId::new
ValidRoom(room) == Len(room) \in 1..MaxRoomLen /\ Range(room) \subseteq Range(Alphabet)

\* What stands before the first separator, and behind it.
FirstSeparator(t) == CHOOSE i \in 1..Len(t) : t[i] = "-" /\ \A k \in 1..(i - 1) : t[k] # "-"
Letters(t) == {i \in 1..Len(t) : t[i] # "-"}

ParseCode(t) ==
  LET n == NormalizeText(t)
      at == FirstSeparator(n)
      room == SubSeq(n, 1, at - 1)
      secret == SubSeq(n, at + 1, Len(n))
  IN  IF n = <<>> THEN Refused("empty")
      ELSE IF "-" \notin Range(n) \/ secret = <<>> THEN Refused("no secret")
      ELSE IF Cardinality(Letters(secret)) < MinSecretChars THEN Refused("short secret")
      ELSE IF ~ValidRoom(room) THEN Refused("bad room")
      ELSE Code(room, secret)

Display(c) == c.room \o <<"-">> \o c.secret

\* The words of a secret.
Join(ws) ==
  LET r[n \in 1..Len(ws)] == IF n = 1 THEN ws[1] ELSE r[n - 1] \o <<"-">> \o ws[n]
  IN  IF ws = <<>> THEN <<>> ELSE r[Len(ws)]
Starts(t) == {i \in 1..Len(t) : t[i] # "-" /\ (i = 1 \/ t[i - 1] = "-")}
WordAt(t, i) ==
  SubSeq(t, i, CHOOSE j \in i..Len(t) : /\ \A k \in i..j : t[k] # "-"
                                        /\ j = Len(t) \/ t[j + 1] = "-")
WordsOf(t) == {WordAt(t, i) : i \in Starts(t)}

-----------------------------------------------------------------------------
(* wordlist *)

RankOf(c) == CHOOSE i \in 1..Len(Alphabet) : Alphabet[i] = c

\* The order of strings, by which the list is searched.
Less(v, w) ==
  \E i \in 1..Len(w) :
    /\ Len(v) >= i - 1 /\ \A k \in 1..(i - 1) : v[k] = w[k]
    /\ Len(v) = i - 1 \/ (Len(v) >= i /\ RankOf(v[i]) < RankOf(w[i]))

\* What the tests of the list check, and the constants of the two files: it is
\* sorted, its words differ in their first letters, and as many of these as a
\* code has at least are a secret that is long enough.  (wordlist.rs 182-210,
\* mod.rs 40-53)
CodesAssumption ==
  /\ UniquePrefix \in Nat \ {0} /\ FewestWords \in Nat \ {0} /\ MostWords \in Nat
  /\ MaxRoomLen \in Nat /\ MinSecretChars \in Nat /\ MaxEdits \in Nat
  /\ FewestWords * UniquePrefix >= MinSecretChars
  /\ Alphabet \in Seq(Range(Alphabet))
  /\ Separators \cap (Small \cup DOMAIN Lowercase) = {} /\ Small \cap DOMAIN Lowercase = {}
  /\ Lowercase \in [DOMAIN Lowercase -> Seq(Small) \ {<<>>}]
  /\ Words \in Seq(Seq(Range(Alphabet)))
  /\ \A i \in 1..Len(Words) :
       /\ Len(Words[i]) >= UniquePrefix
       /\ \A k \in (i + 1)..Len(Words) :
            /\ Less(Words[i], Words[k])
            /\ SubSeq(Words[i], 1, UniquePrefix) # SubSeq(Words[k], 1, UniquePrefix)
  /\ Rooms \subseteq Seq(Range(Alphabet)) /\ \A room \in Rooms : ValidRoom(room)
  /\ Chosen \subseteq Seq(Small \cup Separators \cup DOMAIN Lowercase)

Distance(m, n) == IF m > n THEN m - n ELSE n - m

\* Mutant of Suggest: the word is sought, and not its beginning.
SuggestNext(word) ==
  LET start == Cardinality({i \in 1..Len(Words) : Less(Words[i], word)}) + 1
  IN  IF ~(Range(word) \subseteq Range(Alphabet)) \/ Len(word) < UniquePrefix THEN <<>>
      ELSE IF start > Len(Words) THEN <<>>
      ELSE IF Distance(Len(Words[start]), Len(word)) > 2 THEN <<>> ELSE Words[start]

Suggest(word) ==
  IF ~(Range(word) \subseteq Range(Alphabet)) \/ Len(word) < UniquePrefix THEN <<>>
  ELSE LET prefix == SubSeq(word, 1, UniquePrefix)
           start == Cardinality({i \in 1..Len(Words) : Less(Words[i], prefix)}) + 1
       IN  IF start > Len(Words) THEN <<>>
           ELSE IF ~IsPrefix(prefix, Words[start]) \/ Words[start] = word THEN <<>>
           ELSE IF Distance(Len(Words[start]), Len(word)) > 2 THEN <<>>
           ELSE Words[start]

\* lint: the words that are not in the list, each with a suggestion.
Lint(c) == {[word |-> w, suggestion |-> Suggest(w)] : w \in WordsOf(c.secret) \ Range(Words)}

-----------------------------------------------------------------------------
CodesInit ==
  /\ original = Nothing /\ drawn = FALSE /\ text = <<>> /\ typo = <<>>
  /\ edits = 0 /\ entered = Nothing

\* TransferCode::generate
Generate ==
  /\ original = Nothing
  /\ drawn' = TRUE
  /\ \E n \in (FewestWords - 1)..(MostWords + 1) :
       IF n < FewestWords THEN original' = Refused("too few")
       ELSE IF n > MostWords THEN original' = Refused("too many")
       ELSE \E ws \in [1..n -> Range(Words)] : \E room \in Rooms : original' = Code(room, Join(ws))
  /\ text' = IF IsCode(original') THEN Display(original') ELSE <<>>
  /\ UNCHANGED <<typo, edits, entered>>

\* --code
Choose ==
  /\ original = Nothing
  /\ \E t \in Chosen : original' = ParseCode(t)
  /\ text' = IF IsCode(original') THEN Display(original') ELSE <<>>
  /\ UNCHANGED <<drawn, typo, edits, entered>>

OnTheWay == IsCode(original) /\ entered = Nothing /\ edits < MaxEdits
Replace(i, by) == text' = SubSeq(text, 1, i - 1) \o by \o SubSeq(text, i + 1, Len(text))
OnlyText == edits' = edits + 1 /\ UNCHANGED <<original, drawn, typo, entered>>

WriteCapital(i) ==
  /\ OnTheWay
  /\ \E big \in DOMAIN Lowercase : Lowercase[big] = <<text[i]>> /\ Replace(i, <<big>>)
  /\ OnlyText

\* Another separator, or several.
WriteSeparator(i) ==
  /\ OnTheWay /\ text[i] \in Separators
  /\ \E s \in Separators : \/ Replace(i, <<s>>)
                           \/ \E r \in Separators : Replace(i, <<s, r>>)
  /\ OnlyText

\* Space around it, from a pasted line.
Surround ==
  /\ OnTheWay
  /\ \E s \in Separators : text' \in {<<s>> \o text, Append(text, s)}
  /\ OnlyText

\* One word of a generated code, right in its first letters, is misspelt.
Misspell ==
  /\ OnTheWay /\ drawn /\ typo = <<>> /\ text = Display(original)
  /\ \E i \in Starts(original.secret) :
       LET word == WordAt(original.secret, i)
           at == Len(original.room) + 1 + i
       IN  \E k \in (UniquePrefix + 1)..Len(word) : \E by \in {<<>>} \cup {<<c>> : c \in Range(Alphabet)} :
             LET wrong == SubSeq(word, 1, k - 1) \o by \o SubSeq(word, k + 1, Len(word))
             IN  /\ wrong # word
                 /\ typo' = <<wrong, word>>
                 /\ text' = SubSeq(text, 1, at - 1) \o wrong \o SubSeq(text, at + Len(word), Len(text))
  /\ edits' = edits + 1
  /\ UNCHANGED <<original, drawn, entered>>

Enter ==
  /\ IsCode(original) /\ entered = Nothing
  /\ entered' = ParseCode(text)
  /\ UNCHANGED <<original, drawn, text, typo, edits>>

CodesNext ==
  \/ Generate \/ Choose \/ Surround \/ Misspell \/ Enter
  \/ \E i \in 1..Len(text) : WriteCapital(i) \/ WriteSeparator(i)

CodesSpec == CodesInit /\ [][CodesNext]_codesVars

-----------------------------------------------------------------------------
\* "Accepts any mix of `-`, `_`, and whitespace as separators, and is case
\* insensitive, because people retype these from a chat window" (mod.rs
\* 146-147): however a code is retyped, generated or chosen, both sides end up
\* with the same room and the same secret, and a generated code is never
\* refused nor warned about.
RetypedIsSame == entered # Nothing /\ typo = <<>> =>
  /\ entered = original
  /\ drawn => Lint(entered) = {}

\* A word of a generated code that is misspelt behind its first letters is
\* pointed out before a connection is spent on it, with the word it was, and
\* no other word is.  (mod.rs 211-226, wordlist.rs 147-169)
TyposAreNamed == IsCode(entered) /\ typo # <<>> =>
  Lint(entered) = {[word |-> typo[1], suggestion |-> typo[2]]}
=============================================================================
