---------------------------- MODULE QueryParser ----------------------------
(***************************************************************************)
(* The Lucene-ish query parser of /ws/2 (src/query.rs). A text is a        *)
(* sequence of tokens: a maximal run of letters, a run of digits, or a     *)
(* single other character. An optional text is a set of at most one.       *)
(***************************************************************************)
EXTENDS Integers, Sequences, SequencesExt

KnownFields == {"release", "artist", "recording", "date", "arid", "primarytype", "status"}

\* The letter runs that read as a field name once lower-cased.
Capitalised == [Release |-> "release", Artist |-> "artist", Date |-> "date"]
Lower(w) == IF w \in DOMAIN Capitalised THEN Capitalised[w] ELSE w

Digits == {"1973", "1974"}

\* The first position from i on that is in `where`, or the one past the end.
First(s, i, where) ==
  LET at == {k \in i..Len(s) : k \in where}
  IN  IF at = {} THEN Len(s) + 1 ELSE CHOOSE k \in at : \A l \in at : k <= l

Boundary(s, k) == k = 1 \/ s[k - 1] \in {" ", "(", "\t"}
Marked(s, k) == k < Len(s) /\ s[k + 1] = ":" /\ Boundary(s, k)

\* has_known_field looks for lower-case names, read_field lower-cases what it reads.
HasKnownField(s) == \E k \in DOMAIN s : Marked(s, k) /\ s[k] \in KnownFields
FieldAt(s, i) == First(s, i, {k \in DOMAIN s : Marked(s, k) /\ Lower(s[k]) \in KnownFields})

Trim(s) ==
  LET solid == {k \in DOMAIN s : s[k] # " "}
  IN  IF solid = {} THEN <<>>
      ELSE SubSeq(s, First(s, 1, solid), CHOOSE k \in solid : \A l \in solid : l <= k)

\* The parentheses open after s[i..k], the value's own included.
Depth(s, i, k) ==
  FoldLeft(LAMBDA d, ch : CASE ch = "(" -> d + 1 [] ch = ")" -> d - 1 [] OTHER -> d,
           1, SubSeq(s, i, k))

\* Mutant of Closer: the first closing parenthesis ends the value.
CloserFirst(s, i) == First(s, i, {k \in DOMAIN s : s[k] = ")"})

\* Where the group opened before i closes: no escape is looked at.
Closer(s, i) == First(s, i, {k \in i..Len(s) : Depth(s, i, k) = 0})

\* read_value: the raw value from i on, and the position after it.
ReadValue(s, i) ==
  LET v == First(s, i, {k \in DOMAIN s : s[k] # " "})
      upTo(from, end) == [value |-> SubSeq(s, from, end - 1), next |-> end + 1]
  IN  IF v > Len(s) THEN [value |-> <<>>, next |-> v]
      ELSE CASE s[v] = "\"" -> upTo(v + 1, First(s, v + 1, {k \in DOMAIN s : s[k] = "\""}))
             [] s[v] = "(" -> upTo(v + 1, Closer(s, v + 1))
             [] OTHER -> LET end == First(s, v, {k \in DOMAIN s : s[k] = " "})
                         IN  [value |-> SubSeq(s, v, end - 1), next |-> end]

ReadField(s, i) ==
  LET k == FieldAt(s, i)
      v == ReadValue(s, k + 2)
  IN  [field |-> Lower(s[k]), value |-> v.value, next |-> v.next]

ExtractYear(raw) ==
  LET value == Trim(raw) IN IF value # <<>> /\ value[1] \in Digits THEN <<value[1]>> ELSE <<>>

\* A backslash gives way to what it escapes; one that ends the text stays.
Unescape(raw) ==
  LET step(s, ch) == IF ~s.esc /\ ch = "\\" THEN [s EXCEPT !.esc = TRUE]
                     ELSE [out |-> Append(s.out, ch), esc |-> FALSE]
      end == FoldLeft(step, [out |-> <<>>, esc |-> FALSE], raw)
  IN  Trim(IF end.esc THEN Append(end.out, "\\") ELSE end.out)

\* A `~` after a word, with the digits and dots that follow it up to the word's end.
StripFuzzy(value) ==
  LET suffixEnd(k) == First(value, k + 1, {l \in DOMAIN value : value[l] \notin Digits \cup {"."}})
      suffix(k) == /\ k > 1 /\ value[k] = "~" /\ value[k - 1] # " "
                   /\ suffixEnd(k) > Len(value) \/ value[suffixEnd(k)] = " "
      dropped == {l \in DOMAIN value : \E k \in 1..l : suffix(k) /\ l < suffixEnd(k)}
  IN  FoldLeft(LAMBDA out, l : IF l \in dropped THEN out ELSE Append(out, value[l]),
               <<>>, [l \in DOMAIN value |-> l])

NonEmpty(value) == IF value = <<>> THEN {} ELSE {value}

\* parse: the last value given for a field is the one kept; a text without a
\* known field is a bare query.
Parse(input) ==
  LET s == Trim(input)
      field(f) == IF f.field = "date" THEN NonEmpty(ExtractYear(f.value))
                  ELSE NonEmpty(StripFuzzy(Unescape(f.value)))
      scan[i \in 1..(Len(s) + 2)] ==
        IF FieldAt(s, i) > Len(s) THEN <<>>
        ELSE LET f == ReadField(s, i) IN << <<f.field, field(f)>> >> \o scan[f.next]
      none == [f \in KnownFields \cup {"bare"} |-> {}]
  IN  CASE s = <<>> -> none
        [] s # <<>> /\ ~HasKnownField(s) -> [none EXCEPT !.bare = {StripFuzzy(Unescape(s))}]
        [] OTHER -> FoldLeft(LAMBDA out, fv : [out EXCEPT ![fv[1]] = fv[2]], none, scan[1])

(***************************************************************************)
(* What the consumer sends ("a handful of fixed query shapes"), escaped as *)
(* Lucene wants it or not.                                                 *)
(***************************************************************************)
Special == {"(", ")", "\"", ":", "\\", "~", "*"}
Escape(title) ==
  FoldLeft(LAMBDA out, ch : out \o (IF ch \in Special THEN <<"\\", ch>> ELSE <<ch>>), <<>>, title)

And == <<" ", "AND", " ">>
InParens(f, value) == <<f, ":", "(">> \o value \o <<")">>
InQuotes(f, value) == <<f, ":", "\"">> \o value \o <<"\"">>

Balanced(title) ==
  /\ Depth(title, 1, Len(title)) = 1
  /\ \A k \in DOMAIN title : Depth(title, 1, k) >= 1

\* A title the shapes can carry: trimmed, with no fuzzy suffix of its own.
Plain(title) == title # <<>> /\ Trim(title) = title /\ StripFuzzy(title) = title
Unescapable(title) == \A k \in DOMAIN title : title[k] # "\\"

Reads(query, expected) ==
  Parse(query) = [f \in KnownFields \cup {"bare"} |-> IF f \in DOMAIN expected THEN expected[f] ELSE {}]

\* Which names each of the consumer's shapes carries, escaped as Lucene wants it or
\* not: it reads back the names and the year it was made of, and nothing else,
\* exactly when in parentheses the names' own parentheses match, in quotes they
\* have no quote, and the bare name shows no field marker (has_known_field). Other
\* markers, parentheses, quotes and years in a name do no harm; a quote or a
\* parenthesis that does is no better for its backslash, which only unescape reads.
ReadBack(title, artist) ==
  LET forms(t) == {Escape(t)} \cup (IF Unescapable(t) THEN {t} ELSE {})
      noQuote(t) == \A k \in DOMAIN t : t[k] # "\""
      both(y) == [release |-> {title}, artist |-> {artist}, date |-> y]
      grouped(t, a) == InParens("release", t) \o And \o InParens("artist", a)
      dated(t, a) == grouped(t, a) \o And \o InParens("date", <<"1974", "*">>)
      quoted(t, a) == InQuotes("recording", t) \o And \o InQuotes("artist", a)
  IN  \A t \in forms(title), a \in forms(artist) :
        /\ Reads(grouped(t, a), both({})) <=> Balanced(title) /\ Balanced(artist)
        /\ Reads(dated(t, a), both({<<"1974">>})) <=> Balanced(title) /\ Balanced(artist)
        /\ Reads(quoted(t, a), [recording |-> {title}, artist |-> {artist}])
             <=> noQuote(title) /\ noQuote(artist)
        /\ Reads(t, [bare |-> {title}]) <=> ~HasKnownField(t)
=============================================================================
