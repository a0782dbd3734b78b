------------------------------- MODULE Tokens -------------------------------
(***************************************************************************)
(* The token store of tokens.rs: the identifiers a host has bound its      *)
(* chargers with, in memory a map and on disk one line per charger.        *)
(*                                                                         *)
(* Chargers are numbered in the order of their peripheral identifiers, and *)
(* every line is as long as every other, so a text written over another    *)
(* replaces whole lines.  The heading and its comments are left out.       *)
(***************************************************************************)
EXTENDS Naturals, FiniteSetsExt, SequencesExt

NoToken == 0

NoEntries == [c \in {} |-> NoToken]

\* Store::set and Store::get, by the whole identifier of a peripheral.
SetToken(store, c, t) ==
  [d \in DOMAIN store \union {c} |-> IF d = c THEN t ELSE store[d]]
GetToken(store, c) == IF c \in DOMAIN store THEN store[c] ELSE NoToken

\* Store::load of what a file holds: of two lines of a charger the later one
\* counts, and a line cut short counts for nothing.
Load(lines) ==
  LET last(c) == Max({i \in DOMAIN lines : lines[i].charger = c}) IN
    [c \in {lines[i].charger : i \in DOMAIN lines} |-> lines[last(c)].token]

\* (mutant: only the charger that was set last is written)
LinesOfLast(store, c) == <<[charger |-> c, token |-> store[c]]>>

\* The keys of a map, in its order.
InOrder(S) ==
  CHOOSE s \in [1 .. Cardinality(S) -> S] : \A i, j \in DOMAIN s : i < j => s[i] < s[j]

\* The text Store::save writes after setting the token of c.
Lines(store, c) ==
  LET order == InOrder(DOMAIN store) IN
    [i \in DOMAIN order |-> [charger |-> order[i], token |-> store[order[i]]]]

\* (mutant: the text goes behind what is there)
Behind(file, text) == file \o text

\* A file is written from its start; what it holds beyond the text stays.
Over(file, text) == text \o SubSeq(file, Len(text) + 1, Len(file))
=============================================================================
