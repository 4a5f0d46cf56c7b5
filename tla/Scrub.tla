------------------------------- MODULE Scrub -------------------------------
(***************************************************************************)
(* scrubEvent: what of an error report leaves the process.  Its structured    *)
(* parts (extra, contexts, the data of breadcrumbs) are arbitrary objects of   *)
(* the program, shared and cyclic ones included: a heap of records and arrays  *)
(* whose fields refer to data or to nodes of the heap.  What leaves is a tree. *)
(***************************************************************************)
EXTENDS Naturals, Sequences

CONSTANTS
  Node,         \* the objects of the heap
  Key,          \* property names
  Sensitive,    \* those SENSITIVE_KEY_PATTERN matches
  Width,        \* bound: the length of an array
  MAX_SCRUB_DEPTH,
  Name,         \* header names
  REPORTABLE_HEADER_NAMES,
  Part,         \* the parts scrubbed as records: extra, contexts, breadcrumbs
  Absent

VARIABLES
  heap,
  event,
  report        \* what is sent, once it has been scrubbed

vars == <<heap, event, report>>

\* The leaves: any value that is no object, the placeholder, and no value at all.
Data     == [type |-> "data"]
Redacted == [type |-> "redacted"]
Nothing  == [type |-> "nothing"]

\* A name is no index, and no object is a leaf.
ScrubAssumption ==
  /\ MAX_SCRUB_DEPTH \in Nat /\ Width \in Nat
  /\ Sensitive \subseteq Key
  /\ \A key \in Key : key \notin Nat
  /\ Data \notin Node /\ Nothing \notin Node

Ref     == Node \union {Data}
Records == UNION {[keys -> Ref] : keys \in SUBSET Key \ {{}}}
Arrays  == UNION {[1..n -> Ref] : n \in 1..Width}
Objects == [type : {"record"}, at : Records] \union [type : {"array"}, at : Arrays]

\* An event can be assembled from anywhere: names come in any case.
Header == [name : Name, mixedCase : BOOLEAN]

Events ==
  [parts   : [Part -> Node \union {Nothing}],
   request : [fields : {{"method", "headers", "url", "data"}}, headers : {Header, {}}] \union {Absent},
   user    : {{"id", "email", "ip_address"}, Absent},
   frame   : {{"function", "lineno", "vars"}, Absent}]

TypeOK ==
  /\ heap \in [Node -> Objects]
  /\ event \in Events
  /\ report # Absent =>
       /\ DOMAIN report = DOMAIN event
       /\ \A part \in Part : report.parts[part] = Nothing <=> event.parts[part] = Nothing

-----------------------------------------------------------------------------
(* The traversal                                                            *)

\* Slip: each branch is cut one level late.
Slip_Late(depth) == depth > MAX_SCRUB_DEPTH + 1

TooDeep(depth) == depth > MAX_SCRUB_DEPTH

Hidden(key, ref) == key \in Sensitive

\* scrubRecord, and scrubValue with its arrays: each level is one deeper.
Scrubbed(h, depth, deeper) ==
  [ref \in Ref |->
     IF TooDeep(depth) THEN Redacted
     ELSE IF ref = Data THEN Data
     ELSE [type |-> h[ref].type,
           at |-> [step \in DOMAIN h[ref].at |->
                     IF h[ref].type = "record" /\ Hidden(step, h[ref].at[step]) THEN Redacted
                     ELSE deeper[h[ref].at[step]]]]]

\* The function is defined one level past the cut.
scrubValue(h) ==
  LET scrub[depth \in 0..(MAX_SCRUB_DEPTH + 2)] == Scrubbed(h, depth, scrub[depth + 1])
  IN  scrub

scrubRecord(h, root) == scrubValue(h)[0][root]

filterHeaders(headers) == {header \in headers : header.name \in REPORTABLE_HEADER_NAMES}

scrubParts(e) ==
  [part \in Part |-> IF e.parts[part] = Nothing THEN Nothing ELSE scrubRecord(heap, e.parts[part])]

Reported(e) ==
  [parts   |-> scrubParts(e),
   request |-> IF e.request = Absent THEN Absent
               ELSE [fields |-> {"method", "headers"}, headers |-> filterHeaders(e.request.headers)],
   user    |-> IF e.user = Absent THEN Absent ELSE {"id"},
   frame   |-> IF e.frame = Absent THEN Absent ELSE e.frame \ {"vars"}]

scrubEvent ==
  /\ report = Absent
  /\ report' = Reported(event)
  /\ UNCHANGED <<heap, event>>

\* Any objects, and any event that refers to them; extra, contexts and a
\* breadcrumb's data are records.
Init ==
  /\ heap \in [Node -> Objects]
  /\ event \in Events
  /\ \A part \in Part : event.parts[part] # Nothing => heap[event.parts[part]].type = "record"
  /\ report = Absent

Next == scrubEvent

Spec == Init /\ [][Next]_vars

-----------------------------------------------------------------------------
(* Properties                                                               *)

Step  == Key \union 1..Width
Paths == UNION {[1..n -> Step] : n \in 1..(MAX_SCRUB_DEPTH + 2)}

\* What a path leads to from a part: in the objects, and in the report.
At(object, step) == IF step \in DOMAIN object.at THEN object.at[step] ELSE Nothing

Follow(ref, step) == IF ref \in Node THEN At(heap[ref], step) ELSE Nothing
Enter(tree, step) == IF tree.type \in {"record", "array"} THEN At(tree, step) ELSE Nothing

Before(part, path) ==
  LET walk[i \in 0..Len(path)] ==
        IF i = 0 THEN event.parts[part] ELSE Follow(walk[i - 1], path[i])
  IN  walk[Len(path)]

After(part, path) ==
  LET walk[i \in 0..Len(path)] ==
        IF i = 0 THEN report.parts[part] ELSE Enter(walk[i - 1], path[i])
  IN  walk[Len(path)]

Clean(path) == \A i \in 1..Len(path) : path[i] \notin Sensitive

\* The scrubbed parts, path by path: data leaves the process exactly when no
\* property name on the way to it is sensitive and it lies no deeper than
\* MAX_SCRUB_DEPTH, and every branch that was cut, by its name or its depth, a
\* cycle's too, shows as the placeholder ("a reader can see something was there").
ScrubbedPathByPath ==
  report # Absent =>
    \A part \in Part, path \in Paths :
      LET parent == SubSeq(path, 1, Len(path) - 1)
          last   == path[Len(path)] IN
      /\ After(part, path) = Data <=>
           Before(part, path) = Data /\ Clean(path) /\ Len(path) <= MAX_SCRUB_DEPTH
      /\ After(part, path) = Redacted <=>
           /\ Before(part, path) # Nothing /\ Clean(parent)
           /\ \/ last \in Sensitive /\ Len(path) <= MAX_SCRUB_DEPTH + 1
              \/ last \notin Sensitive /\ Len(path) = MAX_SCRUB_DEPTH + 1

\* Of a request its method and the listed headers leave, in whichever case they
\* are written; of a user the id; of a frame everything but its variables ("new
\* things are excluded until someone decides they are safe").
OnlyTheListLeaves ==
  report # Absent =>
    /\ event.request # Absent =>
         /\ report.request.fields \subseteq {"method", "headers"}
         /\ \A header \in Header :
              header \in report.request.headers <=>
                header \in event.request.headers /\ header.name \in REPORTABLE_HEADER_NAMES
    /\ event.user # Absent => report.user = {"id"}
    /\ event.frame # Absent => report.frame = event.frame \intersect {"function", "lineno"}

\* Both: nothing leaves the process that scrubEvent does not let out, and nothing
\* it lets out is lost.
ReportIsScrubbed == ScrubbedPathByPath /\ OnlyTheListLeaves
=============================================================================
