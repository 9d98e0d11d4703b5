------------------------------ MODULE ChatQuery ------------------------------
(***************************************************************************)
(* The cursor window of lm_chat_history_query: which entries of a channel's *)
(* index a request for BEFORE, AFTER and LIMIT is answered with.  An index  *)
(* is a sequence of message ids, oldest first; a cursor of 0 is absent.     *)
(***************************************************************************)
EXTENDS Integers, Sequences

CONSTANTS
    IdMod,        \* 2^64: ids and cursors are uint64_t
    SizeMod,      \* 2^64: positions are size_t
    MaxLimit,     \* LM_CHAT_HISTORY_MAX_LIMIT
    DefaultLimit  \* LM_CHAT_HISTORY_DEFAULT_LIMIT

ASSUME IdModAssumption == IdMod \in Nat \ {0} /\ SizeMod \in Nat \ {0}
ASSUME LimitAssumption ==
    /\ MaxLimit \in Nat \ {0} /\ DefaultLimit \in 1 .. MaxLimit
    /\ MaxLimit < SizeMod

\* handle_get_chat_history brings the requested limit into range.
Limit(l) == IF l = 0 THEN DefaultLimit ELSE IF l > MaxLimit THEN MaxLimit ELSE l

\* Mutant: the search passes an id equal to the target (<= for <).
UpperBound(ids, target) ==
    LET n == Len(ids)
        f[w \in (0 .. n) \X (0 .. n)] ==      \* w is <<lo, hi>>
          IF w[1] >= w[2] THEN w[1]
          ELSE LET mid == w[1] + ((w[2] - w[1]) \div 2)
               IN  IF ids[mid + 1] <= target THEN f[<<mid + 1, w[2]>>]
                                             ELSE f[<<w[1], mid>>]
    IN  f[<<0, n>>]

\* lm_idx_lower_bound: how many ids precede the first one >= target.
LowerBound(ids, target) ==
    LET n == Len(ids)
        f[w \in (0 .. n) \X (0 .. n)] ==      \* w is <<lo, hi>>
          IF w[1] >= w[2] THEN w[1]
          ELSE LET mid == w[1] + ((w[2] - w[1]) \div 2)
               IN  IF ids[mid + 1] < target THEN f[<<mid + 1, w[2]>>]
                                            ELSE f[<<w[1], mid>>]
    IN  f[<<0, n>>]

\* The window [first, last) of positions counted from 0, and HAS_MORE.  The
\* additions and the subtraction wrap, as they do on unsigned integers.
Window(ids, before, after, limit) ==
    LET n == Len(ids)
        from == LowerBound(ids, (after + 1) % IdMod)
        upto == IF before # 0 THEN LowerBound(ids, before) ELSE n
    IN  IF after # 0
        THEN IF before # 0
             THEN IF (upto - from) % SizeMod > limit
                  THEN [first |-> from, last |-> from + limit, more |-> TRUE]
                  ELSE [first |-> from, last |-> upto, more |-> FALSE]
             ELSE IF from + limit >= n
                  THEN [first |-> from, last |-> n, more |-> FALSE]
                  ELSE [first |-> from, last |-> from + limit, more |-> TRUE]
        ELSE IF upto > limit
             THEN [first |-> upto - limit, last |-> upto, more |-> TRUE]
             ELSE [first |-> 0, last |-> upto, more |-> FALSE]

-----------------------------------------------------------------------------
\* The reference definition: the ids strictly between the cursors, the oldest
\* of them when AFTER is given and the newest otherwise.
IsBetween(id, before, after) == (after # 0 => id > after) /\ (before # 0 => id < before)

Between(ids, before, after) ==
    LET first[k \in 0 .. Len(ids)] ==      \* among the first k
          IF k = 0 THEN <<>>
          ELSE IF IsBetween(ids[k], before, after) THEN Append(first[k - 1], ids[k])
          ELSE first[k - 1]
    IN  first[Len(ids)]

Wanted(ids, before, after, limit) ==
    LET s == Between(ids, before, after)
        n == Len(s)
    IN  [ids |-> IF n <= limit THEN s
                 ELSE IF after # 0 THEN SubSeq(s, 1, limit)
                 ELSE SubSeq(s, n - limit + 1, n),
         more |-> n > limit]
=============================================================================
