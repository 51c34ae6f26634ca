--------------------------------- MODULE Screen --------------------------------
(***************************************************************************)
(* What is on the screen: a uiautomator dump read as a tree (ui/hierarchy  *)
(* .ts), the view a tap lands on (ui/hit_test.ts), the flat list of the    *)
(* elements an agent may act on (ui/list_elements.ts, ui/element_filter    *)
(* .ts), and the tools that answer with them: tap_node, list_elements and  *)
(* capture with its numbered badges.                                       *)
(*                                                                         *)
(* A view's bounds are one interval <<left, right>>: the code treats the   *)
(* other axis in the same way.  A node is named by its number in document  *)
(* order and holds that of its parent, 0 for a window.  A substring is the *)
(* set of the values that contain it; drawing the badges is left out.      *)
(***************************************************************************)
EXTENDS Listing, FiniteSetsExt

CONSTANTS
    Null,           \* null or undefined
    DefaultLimit    \* elements drawn when capture is given no limit

(* Null is no number, no error and nothing that a tap resolves to.         *)
ASSUME ScreenAssumption ==
    /\ DefaultLimit \in Nat /\ Null \notin Nat
    /\ Null \notin {"annotate_elements_unavailable", "annotate_failed"}
    /\ Null \notin [node : Nat, chain : Seq(Nat), anchor : Nat \union {Null}]

-----------------------------------------------------------------------------
(* The tags of a dump, from the views of the screen with their depths; two *)
(* dumps at once share a file on the device and may leave one torn.        *)
Tags(views, torn) ==
    LET depth(i) == IF i > Len(views) THEN 0 ELSE views[i].depth
        tag(name) == [name |-> name, view |-> Null]
        tagsOf(i) ==
            <<[name |-> IF depth(i + 1) > depth(i) THEN "open" ELSE "leaf",
               view |-> views[i].view]>>
            \o [k \in 1 .. Max({0, depth(i) - depth(i + 1)}) |-> tag("close")]
        whole == <<tag("other"), tag("hierarchy")>>
                 \o FlattenSeq([i \in DOMAIN views |-> tagsOf(i)])
    IN  CASE torn = "no"       -> Append(whole, tag("other"))
          [] torn = "unclosed" -> Append(whole, [name |-> "open", view |-> views[1].view])
          [] torn = "surplus"  -> Append(whole, tag("close"))

(* An empty attribute is an absent one, and so are bounds that are not the *)
(* numbers they should be.                                                 *)
BuildNode(view, parent) ==
    [id        |-> IF view.id = "" THEN Null ELSE view.id,
     text      |-> IF view.text = "" THEN Null ELSE view.text,
     bounds    |-> IF Len(view.bounds) = 2 THEN view.bounds ELSE Null,
     clickable |-> view.clickable, checkable |-> view.checkable,
     class     |-> view.class, parent |-> parent]

ReadTag(parse, tag) ==
    IF parse.broken THEN parse ELSE
    CASE tag.name = "hierarchy" -> [parse EXCEPT !.sawHierarchy = TRUE]
      [] tag.name \in {"open", "leaf"} ->
            LET parent == IF parse.stack = <<>> THEN 0 ELSE Last(parse.stack)
            IN  [parse EXCEPT
                   !.nodes = Append(@, BuildNode(tag.view, parent)),
                   !.stack = IF tag.name = "leaf" THEN @
                             ELSE Append(@, Len(parse.nodes) + 1)]
      [] tag.name = "close" ->
            IF parse.stack = <<>> THEN [parse EXCEPT !.broken = TRUE]
            ELSE [parse EXCEPT !.stack = Front(@)]
      [] OTHER -> parse

ParseUiHierarchy(tags) ==
    LET end == FoldLeft(ReadTag, [nodes |-> <<>>, stack |-> <<>>,
                                  sawHierarchy |-> FALSE, broken |-> FALSE], tags)
    IN  [ok    |-> ~end.broken /\ end.sawHierarchy /\ end.stack = <<>>,
         nodes |-> end.nodes]

Children(nodes, n) == {c \in DOMAIN nodes : nodes[c].parent = n}

Roots(nodes) == Children(nodes, 0)

(* A node and its ancestors, from it up to its window.                     *)
Lineage(nodes, n) ==
    LET up[m \in 0 .. Len(nodes)] ==
            IF m = 0 THEN <<>> ELSE <<m>> \o up[nodes[m].parent]
    IN  up[n]

-----------------------------------------------------------------------------
ContainsPoint(node, x) ==
    node.bounds # Null /\ node.bounds[1] <= x /\ x < node.bounds[2]

(* The last window that holds the point, 0 if none does.                   *)
TopmostWindow(nodes, x) ==
    Max({0} \union {r \in Roots(nodes) : ContainsPoint(nodes[r], x)})

(* Mutant: the last child that holds the point, whatever it is.            *)
DescendLast(nodes, x, start) ==
    LET hit[n \in DOMAIN nodes] ==
            LET holding == {c \in Children(nodes, n) : ContainsPoint(nodes[c], x)}
            IN  IF holding = {} THEN n ELSE hit[Max(holding)]
    IN  hit[start]

(* descend: of the children that hold the point the last one that is a     *)
(* leaf, is clickable or has a child there too; else the last of them; and *)
(* the node itself if it has none.                                         *)
Descend(nodes, x, start) ==
    LET holding(n) == {c \in Children(nodes, n) : ContainsPoint(nodes[c], x)}
        settles(c) == holding(c) # {} \/ Children(nodes, c) = {} \/ nodes[c].clickable
        hit[n \in DOMAIN nodes] ==
            LET sure == {c \in holding(n) : settles(c)}
            IN  IF holding(n) = {} THEN n
                ELSE IF sure = {} THEN Max(holding(n))
                ELSE IF holding(Max(sure)) = {} THEN Max(sure)
                ELSE hit[Max(sure)]
    IN  hit[start]

(* resolveTap: the node, and of it and its ancestors the nearest that has  *)
(* an id of the session's app; Null outside every window.                  *)
ResolveTap(nodes, x) ==
    LET window  == TopmostWindow(nodes, x)
        node    == Descend(nodes, x, window)
        lineage == Lineage(nodes, node)
        anchors == {d \in DOMAIN lineage : nodes[lineage[d]].id = "app"}
    IN  IF window = 0 THEN Null
        ELSE [node |-> node, chain |-> Tail(lineage),
              anchor |-> IF anchors = {} THEN Null ELSE lineage[Min(anchors)]]

-----------------------------------------------------------------------------
IsUseful(node) ==
    node.text # Null \/ node.id # Null \/ node.checkable \/ node.clickable

HasPositiveBounds(node) == node.bounds # Null /\ node.bounds[2] > node.bounds[1]

ToElement(nodes, n, window) ==
    LET node == nodes[n]
    IN  [node |-> n, id |-> node.id, class |-> node.class, text |-> node.text,
         clickable |-> node.clickable, bounds |-> node.bounds,
         center |-> (node.bounds[1] + node.bounds[2]) \div 2, window |-> window]

(* Numbers in ascending order: badges, or the nodes in the document's.     *)
InOrder(S) == Sorted(S, {p \in S \X S : p[1] < p[2]})

(* collectElements: the last window first, and in it children before their *)
(* parents.                                                                *)
CollectElements(nodes) ==
    LET under[n \in DOMAIN nodes] ==
            FlattenSeq([i \in 1 .. Cardinality(Children(nodes, n)) |->
                          under[InOrder(Children(nodes, n))[i]]]) \o <<n>>
        useful   == {n \in DOMAIN nodes : IsUseful(nodes[n]) /\ HasPositiveBounds(nodes[n])}
        windows  == Reverse(InOrder(Roots(nodes)))
        rows(i)  == LET listed == Only(under[windows[i]], useful)
                    IN  [k \in DOMAIN listed |-> ToElement(nodes, listed[k], i - 1)]
    IN  FlattenSeq([i \in DOMAIN windows |-> rows(i)])

IntersectsViewport(bounds, viewport) == ~(bounds[2] <= 0 \/ bounds[1] >= viewport)

(* applyElementFilter: every clause that is there must hold; without a     *)
(* viewport the clause on it is no clause.                                 *)
ApplyElementFilter(elements, filter, viewport) ==
    IF filter = Null THEN elements
    ELSE Only(elements, {e \in Range(elements) :
            /\ filter.clickableOnly => e.clickable
            /\ \A f \in DOMAIN filter.contains : e[f] \in filter.contains[f]
            /\ filter.inViewport /\ viewport # Null => IntersectsViewport(e.bounds, viewport)})

(* probeViewport: the override before the physical size, if it is a size.  *)
ProbeViewport(wm) ==
    LET isSize(w) == w # Null /\ w > 0
    IN  IF isSize(wm.override) THEN wm.override
        ELSE IF isSize(wm.physical) THEN wm.physical ELSE Null

(* Mutant: what is over the limit is cut before the filter is applied.     *)
NarrowedLate(nodes, filter, limit, wm) ==
    LET all      == CollectElements(nodes)
        filtered == ApplyElementFilter(SubSeq(all, 1, Min({limit, Len(all)})), filter,
                                       ProbeViewport(wm))
    IN  [elements |-> filtered, unfiltered |-> Len(all), filtered |-> Len(filtered),
         truncated |-> Len(all) > limit, warned |-> FALSE]

(* The elements a call asks for, and what it says of those it leaves out.  *)
Narrowed(nodes, filter, limit, wm) ==
    LET probed   == filter # Null /\ filter.inViewport
        viewport == IF probed THEN ProbeViewport(wm) ELSE Null
        all      == CollectElements(nodes)
        filtered == ApplyElementFilter(all, filter, viewport)
        elements == SubSeq(filtered, 1, Min({limit, Len(filtered)}))
    IN  [elements   |-> elements,
         unfiltered |-> Len(all),
         filtered   |-> Len(filtered),
         truncated  |-> Len(filtered) > Len(elements),
         warned     |-> probed /\ viewport = Null]

-----------------------------------------------------------------------------
(* captureUiDump tries twice, by the terminal and by a file each time; the *)
(* first dump that comes is saved as an artifact, whole or torn.           *)
CaptureUiDump(device) == \E i \in DOMAIN device.tries : device.tries[i]

Dump(views, device) == ParseUiHierarchy(Tags(views, device.torn))

Refused(code, saved) ==
    [refused |-> TRUE, code |-> code, tapped |-> FALSE, saved |-> saved, events |-> <<>>]

(* What an event may tell of a node: nothing of what the screen shows.     *)
SerializeNode(node) ==
    [id |-> node.id, class |-> node.class, bounds |-> node.bounds,
     clickable |-> node.clickable]

CaptureEvent(kinds) == [type |-> "capture", kinds |-> kinds]

(* What a call has done is recorded last: its command, then its events.  A *)
(* row that cannot be appended, as when a stop has closed the streams, is  *)
(* an error of the call, and the rows before it stay.                      *)
WithRows(device, done) ==
    IF device.rows > Len(done.events) THEN done
    ELSE [refused |-> TRUE, code |-> "unrecorded", tapped |-> done.tapped,
          saved |-> done.saved, events |-> SubSeq(done.events, 1, device.rows - 1)]

(* tap_node: nothing is tapped before the dump is read and the point found *)
(* in it, and nothing is recorded before the tap.                          *)
TapNode(views, device, x) ==
    LET dump == Dump(views, device)
        hit  == ResolveTap(dump.nodes, x)
        told(n) == SerializeNode(dump.nodes[n])
    IN  IF ~CaptureUiDump(device) THEN Refused("ui_dump_failed", {})
        ELSE IF ~dump.ok THEN Refused("ui_dump_failed", {"dump"})
        ELSE IF hit = Null THEN Refused("invalid_argument", {"dump"})
        ELSE IF device.adb = "foreground" THEN Refused("adb_command_failed", {"dump"})
        ELSE IF device.adb = "tap"
             THEN [Refused("adb_command_failed", {"dump"}) EXCEPT !.tapped = TRUE]
        ELSE WithRows(device,
             [refused |-> FALSE, tapped |-> TRUE, saved |-> {"dump"}, hit |-> hit,
              events |-> <<CaptureEvent({"ui_dump"}),
                           [type   |-> "tap_node",
                            node   |-> told(hit.node),
                            anchor |-> IF hit.anchor = Null THEN Null ELSE told(hit.anchor),
                            chain  |-> [d \in DOMAIN hit.chain |-> told(hit.chain[d])]]>>])

ListElements(views, device, filter, limit) ==
    LET dump == Dump(views, device)
        list == Narrowed(dump.nodes, filter, limit, device.wm)
    IN  IF ~CaptureUiDump(device) THEN Refused("ui_dump_failed", {})
        ELSE IF ~dump.ok THEN Refused("ui_dump_failed", {"dump"})
        ELSE WithRows(device,
             [refused |-> FALSE, tapped |-> FALSE, saved |-> {"dump"}, list |-> list,
              windows |-> Cardinality(Roots(dump.nodes)),
              events |-> <<CaptureEvent({"ui_dump"}),
                           [type |-> "list_elements", count |-> Len(list.elements),
                            unfiltered |-> list.unfiltered, filtered |-> list.filtered,
                            truncated |-> list.truncated]>>])

-----------------------------------------------------------------------------
(* applyAnnotationIdsSubset: the badges asked for, each once, in order,    *)
(* under the numbers they had before.                                      *)
AnnotationIdsSubset(elements, ids) ==
    LET wanted == IF ids = Null THEN DOMAIN elements ELSE Range(ids)
        sorted == InOrder(wanted)
    IN  [i \in DOMAIN sorted |-> [annotationId |-> sorted[i], element |-> elements[sorted[i]]]]

(* emptyAnnotation: what cannot be drawn is told, and the screenshot stays.*)
EmptyAnnotation(error, ids) ==
    [error |-> error, elements |-> <<>>, unfiltered |-> 0, filtered |-> 0,
     truncated |-> FALSE, warned |-> FALSE,
     requested |-> IF ids = Null THEN Null ELSE Len(ids),
     applied   |-> IF ids = Null THEN Null ELSE 0]

(* What only the drawing of badges takes.                                  *)
AnnotateOnly(a) == a.filter # Null \/ a.limit # Null \/ a.ids # Null

(* What the event says of the badges: as many as were drawn, and how many  *)
(* elements there were to draw, even if they could not be.                 *)
AnnotationRow(a, annotation, collected, list, applied) ==
    [applied    |-> applied,
     annotated  |-> a.annotate,
     count      |-> IF a.annotate THEN Len(annotation.elements) ELSE 0,
     error      |-> IF a.annotate THEN annotation.error ELSE Null,
     unfiltered |-> IF collected THEN list.unfiltered ELSE 0,
     filtered   |-> IF collected THEN list.filtered ELSE 0,
     truncated  |-> collected /\ list.truncated]

(* capture: a screenshot, a dump, and the screenshot once more with a      *)
(* numbered badge for each element of that dump.  The dump is taken once   *)
(* for both, and one that fails is no failure of the call; a badge that is *)
(* not there is, when all but the records have been made.                  *)
Captured(device, a, whole, list) ==
    LET dumped    == (a.annotate \/ "ui_dump" \in a.kinds) /\ CaptureUiDump(device)
        collected == dumped /\ a.annotate /\ whole
        dumpTold  == dumped /\ (a.annotate => whole)
        badges    == AnnotationIdsSubset(list.elements, a.ids)
        outside   == collected /\ a.ids # Null
                     /\ ~(Range(a.ids) \subseteq DOMAIN list.elements)
        drawn     == collected /\ (badges # <<>> => device.paints)
        applied   == IF a.ids = Null THEN Null ELSE IF collected THEN Len(badges) ELSE 0
        saved     == (a.kinds \intersect {"screenshot"})
                     \union (IF dumped THEN {"dump"} ELSE {})
        annotation ==
            IF ~a.annotate THEN Null
            ELSE IF ~collected THEN EmptyAnnotation("annotate_elements_unavailable", a.ids)
            ELSE IF ~drawn THEN EmptyAnnotation("annotate_failed", a.ids)
            ELSE [error |-> Null, elements |-> badges, unfiltered |-> list.unfiltered,
                  filtered |-> list.filtered, truncated |-> list.truncated,
                  warned |-> list.warned,
                  requested |-> IF a.ids = Null THEN Null ELSE Len(a.ids),
                  applied |-> applied]
    IN  IF a.annotate /\ "screenshot" \notin a.kinds THEN Refused("query_malformed", {})
        ELSE IF ~a.annotate /\ AnnotateOnly(a) THEN Refused("query_malformed", {})
        ELSE IF "screenshot" \in a.kinds /\ ~device.screencap
             THEN Refused("adb_command_failed", {})
        ELSE IF "ui_dump" \in a.kinds /\ dumpTold /\ device.adb = "foreground"
             THEN Refused("adb_command_failed", saved)
        ELSE IF outside THEN Refused("query_malformed", saved)
        ELSE WithRows(device,
             [refused |-> FALSE, tapped |-> FALSE,
              saved   |-> saved \union (IF drawn THEN {"annotated"} ELSE {}),
              uiDump  |-> "ui_dump" \in a.kinds /\ dumpTold,
              annotation |-> annotation,
              events  |-> <<[type   |-> "capture", kinds |-> a.kinds,
                             uiDumpFailed |-> "ui_dump" \in a.kinds /\ ~dumpTold,
                             badges |-> AnnotationRow(a, annotation, collected, list,
                                                      applied)]>>])

Capture(views, device, a) ==
    LET dump == Dump(views, device)
    IN  Captured(device, a, dump.ok,
            Narrowed(dump.nodes, a.filter,
                     IF a.limit = Null THEN DefaultLimit ELSE a.limit, device.wm))
=============================================================================
