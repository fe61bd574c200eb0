-------------------------------- MODULE Quadtree --------------------------------
(***************************************************************************)
(* The tree that bodies, ships and arcs are looked up in                   *)
(* (marita-core/src/spatial_tree.rs).  A box is [min, max]; an item is     *)
(* [index, box].  The children of the root are not split again: once they  *)
(* are there an item goes into their lists, however long these become, so  *)
(* that the tree has two levels and max_depth is of no effect.             *)
(***************************************************************************)
EXTENDS Plane

PointBox(p) == [min |-> p, max |-> p]

CircleBox(p, radius) ==
  [min |-> <<p[1] - radius, p[2] - radius>>, max |-> <<p[1] + radius, p[2] + radius>>]

Joined(a, b) ==
  [min |-> <<Min({a.min[1], b.min[1]}), Min({a.min[2], b.min[2]})>>,
   max |-> <<Max({a.max[1], b.max[1]}), Max({a.max[2], b.max[2]})>>]

Encloses(a, b) == \A i \in 1..2 : b.min[i] >= a.min[i] /\ b.max[i] <= a.max[i]

Overlaps(a, b) == \A i \in 1..2 : a.min[i] <= b.max[i] /\ a.max[i] >= b.min[i]

\* child_bounds: the four quarters of a box, which share their sides.
Quarters(box) ==
  LET mid == <<(box.min[1] + box.max[1]) \div 2, (box.min[2] + box.max[2]) \div 2>>
  IN  << [min |-> box.min, max |-> mid],
         [min |-> <<mid[1], box.min[2]>>, max |-> <<box.max[1], mid[2]>>],
         [min |-> <<box.min[1], mid[2]>>, max |-> <<mid[1], box.max[2]>>],
         [min |-> mid, max |-> box.max] >>

\* A tree before anything is in it; its children are <<>> until it is split.
EmptyTree(box) == [box |-> box, items |-> <<>>, children |-> <<>>]

\* Mutant: what lies across a side is left to the first child it touches.
InsertedInTouched(tree, item) ==
  LET target == {k \in DOMAIN tree.children : Overlaps(tree.children[k].box, item.box)}
  IN  IF target = {} THEN [tree EXCEPT !.items = Append(@, item)]
      ELSE [tree EXCEPT !.children[Min(target)].items = Append(@, item)]

\* insert_child: into the first child that holds all of the item, or here.
InsertedInChild(tree, item) ==
  LET target == {k \in DOMAIN tree.children : Encloses(tree.children[k].box, item.box)}
  IN  IF target = {} THEN [tree EXCEPT !.items = Append(@, item)]
      ELSE [tree EXCEPT !.children[Min(target)].items = Append(@, item)]

Split(tree) ==
  FoldLeft(InsertedInChild,
           [tree EXCEPT !.items = <<>>,
                        !.children = [k \in 1..4 |-> [box |-> Quarters(tree.box)[k], items |-> <<>>]]],
           tree.items)

Inserted(capacity, tree, item) ==
  LET longer == [tree EXCEPT !.items = Append(@, item)]
  IN  IF tree.children # <<>> THEN InsertedInChild(tree, item)
      ELSE IF Len(longer.items) > capacity THEN Split(longer)
      ELSE longer

Entries(boxes) == [i \in DOMAIN boxes |-> [index |-> i, box |-> boxes[i]]]

\* The box of the root, with a margin round the items.
Around(boxes) ==
  LET all == FoldLeft(Joined, boxes[1], boxes)
  IN  [min |-> Minus(all.min, <<1, 1>>), max |-> Plus(all.max, <<1, 1>>)]

\* Quadtree::build.
Built(boxes, capacity) ==
  IF boxes = <<>> THEN EmptyTree([min |-> <<-1, -1>>, max |-> <<1, 1>>])
  ELSE FoldLeft(LAMBDA tree, item : Inserted(capacity, tree, item),
                EmptyTree(Around(boxes)), Entries(boxes))

Noted(region, found, item) ==
  IF Overlaps(item.box, region) THEN Append(found, item.index) ELSE found

\* query_region_node, for what is in the node itself.
Searched(region, found, node) ==
  IF ~ Overlaps(node.box, region) THEN found
  ELSE FoldLeft(LAMBDA out, item : Noted(region, out, item), found, node.items)

\* query_region: indices, those of the root first.
Query(tree, region) ==
  IF ~ Overlaps(tree.box, region) THEN <<>>
  ELSE FoldLeft(LAMBDA found, child : Searched(region, found, child),
                Searched(region, <<>>, tree), tree.children)

=================================================================================
