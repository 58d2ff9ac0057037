------------------------------ MODULE Directory ------------------------------
(* Searching the customers of one organisation, a page at a time             *)
(* (repositories/pagination.py, repositories/customers.py, the handler of    *)
(* search_customers). A page is one request: the caller's membership is read *)
(* again for each, and people edit the directory between two of them.        *)
EXTENDS Integers, FiniteSets, FiniteSetsExt

CONSTANTS
  Customers,     \* ids of customers
  Names,         \* lower(full_name), in its order
  Matching,      \* the names that contain the text searched for
  Requested,     \* the limit the caller sends
  EndpointMax,   \* MAX_LIMIT
  PolicyMax      \* the max_results obligation

ASSUME DirectoryAssumption ==
  /\ Customers \subseteq Nat \ {0} /\ IsFiniteSet(Customers)
  /\ Names \subseteq Nat \ {0}
  /\ Matching \subseteq Names
  /\ Requested \in Nat \ {0} /\ EndpointMax \in Nat \ {0} /\ PolicyMax \in Nat \ {0}

VARIABLES
  directory,     \* customer -> name, or Gone
  searcher       \* the user holds a role that may search

dirVars == <<directory, searcher>>

Gone  == 0
Start == <<0, 0>>     \* no cursor, or one that does not decode

Key(c)       == <<directory[c], c>>
Before(k, l) == k[1] < l[1] \/ (k[1] = l[1] /\ k[2] < l[2])

(* The rows of _SEARCH before its LIMIT, for a cursor.                       *)
After(position) ==
  {c \in Customers : directory[c] \in Matching /\ Before(position, Key(c))}

(* The n least of S, in the order of the query.                              *)
FirstOf(S, n) ==
  {c \in S : Cardinality({d \in S : Before(Key(d), Key(c))}) < n}

(* The lowest of what was asked for, the endpoint's limit and the policy's.  *)
ClampLimit == Min({Requested, EndpointMax, PolicyMax})

LastOf(S) == Key(CHOOSE c \in S : \A d \in S \ {c} : Before(Key(d), Key(c)))

(* Mutant: the cursor is taken from the row fetched only to be counted.      *)
CursorOfFetched(rows, visible) ==
  IF Cardinality(rows) > ClampLimit THEN LastOf(rows) ELSE Start

(* build_page: the last row shown, when one more was fetched.                *)
NextCursor(rows, visible) ==
  IF Cardinality(rows) > ClampLimit THEN LastOf(visible) ELSE Start

(* One search: refused, or a page and the cursor of the next.                *)
Search(position) ==
  LET rows    == FirstOf(After(position), ClampLimit + 1)
      visible == FirstOf(rows, ClampLimit)
  IN IF searcher THEN [status |-> 200, rows |-> visible, next |-> NextCursor(rows, visible)]
                 ELSE [status |-> 404, rows |-> {}, next |-> Start]

-----------------------------------------------------------------------------
(* What others do: a row added, removed or renamed, a membership withdrawn   *)
(* or given back.                                                            *)
Edited(c, name) == directory[c] # name /\ directory' = [directory EXCEPT ![c] = name]

MembershipChanged == searcher' = ~searcher /\ UNCHANGED directory

DirectoryInit ==
  /\ directory \in [Customers -> Names \cup {Gone}]
  /\ searcher = TRUE

DirectoryTypeOK ==
  /\ directory \in [Customers -> Names \cup {Gone}]
  /\ searcher \in BOOLEAN
=============================================================================
