--------------------------------- MODULE Lists ---------------------------------
(***************************************************************************)
(* Python's lists, as sequences, and dictionaries, as functions on the     *)
(* keys they have.  What loops over a list is a recursive function, so     *)
(* that it can be reasoned about.                                          *)
(***************************************************************************)
EXTENDS Integers, Sequences

Elements(seq) == {seq[i] : i \in DOMAIN seq}

\* [x for x in seq if x in S]
Kept(seq, S) ==
  LET kept[n \in 0..Len(seq)] ==
        IF n = 0 THEN <<>>
        ELSE IF seq[n] \in S THEN Append(kept[n - 1], seq[n]) ELSE kept[n - 1]
  IN  kept[Len(seq)]

\* The keys of a dictionary after pop(key, None).
Dropped(seq, key) == Kept(seq, Elements(seq) \ {key})

EmptyDict == [x \in {} |-> x]

\* f[key] := value, and f.pop(key, None).
Put(f, key, value) == [x \in DOMAIN f \cup {key} |-> IF x = key THEN value ELSE f[x]]
Without(f, key) == [x \in DOMAIN f \ {key} |-> f[x]]

Filed_LastOnly(f, key, value) == Put(f, key, <<value>>)

\* f.setdefault(key, []).append(value)
Filed(f, key, value) ==
  Put(f, key, IF key \in DOMAIN f THEN Append(f[key], value) ELSE <<value>>)

\* f.get(key, [])
Listed(f, key) == IF key \in DOMAIN f THEN f[key] ELSE <<>>

\* for x in seq: f.setdefault(key[x], []).append(value[x]), from an empty f.
Grouped(seq, key, value) ==
  LET filed[n \in 0..Len(seq)] ==
        IF n = 0 THEN EmptyDict ELSE Filed(filed[n - 1], key[seq[n]], value[seq[n]])
  IN  filed[Len(seq)]
=============================================================================
