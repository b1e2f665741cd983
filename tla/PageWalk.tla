------------------------------- MODULE PageWalk -------------------------------
(***************************************************************************)
(* The lists of the factories are read in pages (read_vaults, read_pairs):  *)
(* a reader asks for the entries after the last one it has seen, until it   *)
(* gets none, and between two pages entries come and go.                    *)
(***************************************************************************)
EXTENDS Integers, SequencesExt, Sums, TLC

CONSTANTS
  Admins,      \* addresses that may become the owner of a factory
  Collectors,  \* addresses that may become its fee collector
  MaxLimit,    \* MAX_LIMIT, the length of the longest page
  Limits       \* lengths that readers ask for

ASSUME PageAssumption == MaxLimit \in Nat \ {0} /\ Limits \subseteq Nat \ {0}

VARIABLE
  walk    \* a reader: the last key, the keys seen, those seen again, the keys
          \* listed since it began, and whether it has come to the end

NoWalk ==
  [start_after |-> 0, seen |-> {}, twice |-> {}, throughout |-> {}, over |-> TRUE]

(* The place of a key in the order of the keys, and the key at a place. *)
Place(k, keys) == Cardinality({j \in keys : j <= k})
KeyAt(i, keys) == CHOOSE k \in keys : Place(k, keys) = i

(* The entries that an iterator over the keys takes when it takes n. *)
Taken(keys, n) == {k \in keys : Place(k, keys) <= n}

(* calc_range_start: the keys strictly after a key, which zero comes before. *)
LaterInclusive(listed, start_after) ==                           \* mutant
  {k \in listed : k >= start_after}
Later(listed, start_after) == {k \in listed : k > start_after}

(* The entries of a page. *)
Page(listed, start_after, limit) ==
  Taken(Later(listed, start_after), IF limit < MaxLimit THEN limit ELSE MaxLimit)

StartWalk(listed) ==
  /\ walk.over
  /\ walk' = [NoWalk EXCEPT !.throughout = listed, !.over = FALSE]

(* The next page, or the end if there is nothing on it. *)
NextPage(listed, limit) ==
  LET page == Page(listed, walk.start_after, limit) IN
  /\ ~walk.over
  /\ \/ /\ Later(listed, walk.start_after) = {}
        /\ walk' = [walk EXCEPT !.over = TRUE]
     \/ \E last \in page :
          /\ \A k \in page : k <= last
          /\ walk' = [walk EXCEPT !.start_after = last, !.seen = @ \cup page,
                                  !.twice = @ \cup (page \cap walk.seen)]

(* An entry is no longer listed. *)
Unlisted(key) == walk' = [walk EXCEPT !.throughout = @ \ {key}]

(* A reader that follows the pages to the end has seen every entry that was *)
(* listed all the time, and none twice, whatever was added and removed      *)
(* between its pages.                                                       *)
WalkFindsAll ==
  /\ walk.twice = {}
  /\ walk.over => walk.throughout \subseteq walk.seen
=============================================================================
