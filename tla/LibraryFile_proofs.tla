------------------------ MODULE LibraryFile_proofs ------------------------
(***************************************************************************)
(* What the requests of one worker do to a library file, whatever they     *)
(* are: a request that is under way has a plan whose rest is known to      *)
(* bring back what its first rewrites took out of step.  And the types,    *)
(* for any number of workers.                                              *)
(***************************************************************************)
EXTENDS LibraryFile, SequenceTheorems, TLAPS

\* What a request's plan consists of.
Tasks == Parts \cup {"images", "purge"}

\* What is left of a request: the entry in assets.json is made, and the photo taken
\* out, before anything else; and each part that is left is one the request changes.
Sorted(op, todo) ==
    /\ todo \in Seq(Tasks) /\ todo # <<>>
    /\ "assets" \in Range(todo) => todo = Plan(op) /\ op.name = "addPhoto"
    /\ "purge" \in Range(todo) => todo = Plan(op) /\ op.name = "deletePhoto"
    /\ "images" \in Range(todo) => op.name = "addPhoto"
    /\ "recipe" \in Range(todo) => kind = "recipe" /\ op.name \in {"addPhoto", "deletePhoto", "put"}
    /\ "comments" \in Range(todo) =>
           op.name \in {"addPhoto", "deletePhoto", "addComment", "editComment", "deleteComment", "put"}

\* The photos a part refers to.
Refs(part, value) ==
    IF part = "comments" THEN UNION {value[c] : c \in DOMAIN value} ELSE value

\* A photo that is being deleted may be referred to in the parts still to do; one
\* that is being added may have its entry and not its image.
Dangling(op, todo, part) ==
    IF op.name = "deletePhoto" /\ part \in Range(todo) THEN {op.photo} ELSE {}
Missing(op, todo) ==
    IF op.name = "addPhoto" /\ "images" \in Range(todo) /\ "assets" \notin Range(todo)
    THEN {op.photo} ELSE {}
Registered(op, todo) ==
    \/ op.name = "setCover"
    \/ op.name = "addPhoto" /\ "assets" \notin Range(todo)
    \/ op.name = "deletePhoto" /\ "purge" \in Range(todo)

\* The parts q and the images i are whole but for what is left to do.
Whole(q, i, op, todo) ==
    /\ q = [part \in PartsOf(kind) |-> q[part]]
    /\ \A part \in PartsOf(kind) :
           Refs(part, q[part]) \subseteq q["assets"] \cup named \cup Dangling(op, todo, part)
    /\ q["assets"] = i \cup Missing(op, todo)
    /\ Registered(op, todo) => op.photo \in q["assets"]
    /\ op.name = "patchCover" => op.photo \in q["assets"] \cup named

\* The parts once one of them is appended.
Filled(q, part, value) ==
    [x \in DOMAIN q \cup {part} |-> IF x = part THEN value ELSE q[x]]

\* Where a request is, and what it holds: an archive without the part is never in the
\* place of the file but between "rename" and "append".
AtWork(r) ==
    /\ DOMAIN r = {"op", "todo", "phase", "content", "copy"}
    /\ Sorted(r.op, r.todo)
    /\ r.phase \in {"read", "copy", "remove", "rename", "append"}
    /\ r.phase \in {"read", "copy", "remove"} => there /\ Whole(parts, images, r.op, r.todo)
    /\ r.phase # "read" => Head(r.todo) \in PartsOf(kind)
    /\ r.phase \in {"copy", "remove"} =>
           Whole(Filled(parts, Head(r.todo), r.content), images, r.op, r.todo)
    /\ r.phase = "remove" =>
           r.copy = <<Restrict(parts, DOMAIN parts \ {Head(r.todo)}), images>>
    /\ r.phase = "rename" =>
           /\ DOMAIN r.copy[1] = PartsOf(kind) \ {Head(r.todo)}
           /\ Whole(Filled(r.copy[1], Head(r.todo), r.content), r.copy[2], r.op, r.todo)
    /\ r.phase = "append" =>
           /\ there /\ DOMAIN parts = PartsOf(kind) \ {Head(r.todo)}
           /\ Whole(Filled(parts, Head(r.todo), r.content), images, r.op, r.todo)

\* Of one worker.
FileInv(w) ==
    /\ kind \in {"cook", "recipe"}
    /\ request = [v \in {w} |-> request[v]]
    /\ IF request[w] = Idle THEN there => Whole(parts, images, NoOp, <<>>) ELSE AtWork(request[w])

LEMMA EmptyRange == Range(<<>>) = {}
BY DEF Range

LEMMA Ends ==
    ASSUME NEW s \in Seq(Tasks), s # <<>>
    PROVE  /\ Head(s) \in Range(s) /\ Head(s) \in Tasks /\ Head(s) = s[1] /\ Len(s) \in Nat \ {0}
           /\ Tail(s) \in Seq(Tasks) /\ Range(s) = {Head(s)} \cup Range(Tail(s))
           /\ Len(s) = 1 => Tail(s) = <<>>
           /\ Len(s) # 1 => Tail(s) # <<>>
<1>1. /\ Head(s) = s[1] /\ Len(s) \in Nat \ {0} /\ DOMAIN s = 1..Len(s) /\ Head(s) \in Tasks
      /\ Tail(s) \in Seq(Tasks) /\ Len(Tail(s)) = Len(s) - 1
      /\ \A i \in 1..Len(Tail(s)) : Tail(s)[i] = s[i + 1]
  BY HeadTailProperties, EmptySeq
<1>2. DOMAIN Tail(s) = 1..(Len(s) - 1)
  BY <1>1
<1>3. Head(s) \in Range(s)
  BY <1>1 DEF Range
<1>4. ASSUME NEW x \in Range(Tail(s)) PROVE x \in Range(s)
  <2>1. PICK i \in 1..(Len(s) - 1) : x = Tail(s)[i]
    BY <1>2, <1>4 DEF Range
  <2>2. x = s[i + 1] /\ i + 1 \in 1..Len(s)
    BY <1>1, <2>1
  <2> QED BY <1>1, <2>2 DEF Range
<1>5. ASSUME NEW x \in Range(s), x # Head(s) PROVE x \in Range(Tail(s))
  <2>1. PICK i \in 1..Len(s) : x = s[i]
    BY <1>1, <1>5 DEF Range
  <2>2. i # 1
    BY <1>1, <1>5, <2>1
  <2>3. i - 1 \in 1..(Len(s) - 1) /\ Tail(s)[i - 1] = s[(i - 1) + 1] /\ (i - 1) + 1 = i
    BY <1>1, <2>2
  <2> QED BY <1>2, <2>1, <2>3 DEF Range
<1>6. Range(s) = {Head(s)} \cup Range(Tail(s))
  BY <1>3, <1>4, <1>5
<1>7. Len(s) = 1 => Tail(s) = <<>>
  <2>1. Len(s) = 1 => Len(Tail(s)) = 0
    BY <1>1
  <2> QED BY <1>1, <2>1, EmptySeq
<1>8. Len(s) # 1 => Tail(s) # <<>>
  <2>1. Len(s) # 1 => Len(Tail(s)) # 0
    BY <1>1
  <2> QED BY <2>1
<1> QED BY <1>1, <1>3, <1>6, <1>7, <1>8

LEMMA Joined ==
    ASSUME NEW s \in Seq(Tasks), NEW t \in Seq(Tasks), s # <<>>
    PROVE  /\ s \o t \in Seq(Tasks) /\ s \o t # <<>> /\ Head(s \o t) = Head(s)
           /\ Tail(s \o t) = Tail(s) \o t
<1> DEFINE q == s \o t
<1>1. /\ q \in Seq(Tasks) /\ Len(q) = Len(s) + Len(t)
      /\ \A i \in 1..Len(q) : q[i] = IF i <= Len(s) THEN s[i] ELSE t[i - Len(s)]
  BY ConcatProperties
<1>2. Len(s) \in Nat \ {0} /\ Len(t) \in Nat /\ Head(s) = s[1] /\ Tail(s) \in Seq(Tasks)
      /\ Len(Tail(s)) = Len(s) - 1 /\ \A i \in 1..Len(Tail(s)) : Tail(s)[i] = s[i + 1]
  BY Ends, HeadTailProperties
<1>3. 1 \in 1..Len(q) /\ q[1] = s[1]
  BY <1>1, <1>2
<1>4. q # <<>>
  BY <1>1, <1>2
<1>5. Head(q) = q[1]
  BY <1>1, <1>4, Ends
<1>6. /\ Tail(q) \in Seq(Tasks) /\ Len(Tail(q)) = Len(q) - 1
      /\ \A i \in 1..Len(Tail(q)) : Tail(q)[i] = q[i + 1]
  BY <1>1, <1>4, HeadTailProperties
<1> DEFINE p == Tail(s) \o t
<1>7. /\ p \in Seq(Tasks) /\ Len(p) = Len(Tail(s)) + Len(t)
      /\ \A i \in 1..Len(p) : p[i] = IF i <= Len(Tail(s)) THEN Tail(s)[i] ELSE t[i - Len(Tail(s))]
  BY <1>2, ConcatProperties
<1> HIDE DEF q, p
<1>8. Len(Tail(q)) = Len(p)
  BY <1>1, <1>2, <1>6, <1>7
<1>9. ASSUME NEW i \in 1..Len(p) PROVE Tail(q)[i] = p[i]
  <2>1. Len(p) = (Len(s) - 1) + Len(t) /\ Len(q) = Len(s) + Len(t)
    BY <1>1, <1>2, <1>7
  <2>2. i + 1 \in 1..Len(q) /\ Tail(q)[i] = q[i + 1]
    BY <1>2, <1>6, <1>8, <2>1
  <2>3. CASE i <= Len(s) - 1
    <3>1. p[i] = s[i + 1]
      BY <1>2, <1>7, <2>3
    <3>2. q[i + 1] = s[i + 1]
      BY <1>1, <1>2, <2>2, <2>3
    <3> QED BY <2>2, <3>1, <3>2
  <2>4. CASE ~(i <= Len(s) - 1)
    <3>1. p[i] = t[i - (Len(s) - 1)]
      BY <1>2, <1>7, <2>4
    <3>2. q[i + 1] = t[(i + 1) - Len(s)]
      BY <1>1, <1>2, <2>2, <2>4
    <3>3. i - (Len(s) - 1) = (i + 1) - Len(s)
      BY <1>2
    <3> QED BY <2>2, <3>1, <3>2, <3>3
  <2> QED BY <2>3, <2>4
<1>10. Tail(q) = p
  BY <1>6, <1>7, <1>8, <1>9, SeqEqual
<1> QED BY <1>1, <1>3, <1>4, <1>5, <1>2, <1>10 DEF p, q

LEMMA RangeOfJoined ==
    ASSUME NEW s \in Seq(Tasks), NEW t \in Seq(Tasks)
    PROVE  s \o t \in Seq(Tasks) /\ Range(s \o t) = Range(s) \cup Range(t)
<1> DEFINE q == s \o t
<1>1. /\ q \in Seq(Tasks) /\ Len(q) = Len(s) + Len(t)
      /\ \A i \in 1..Len(q) : q[i] = IF i <= Len(s) THEN s[i] ELSE t[i - Len(s)]
      /\ Len(s) \in Nat /\ Len(t) \in Nat
  BY ConcatProperties
<1>2. DOMAIN q = 1..(Len(s) + Len(t)) /\ DOMAIN s = 1..Len(s) /\ DOMAIN t = 1..Len(t)
  BY <1>1
<1> HIDE DEF q
<1>3. ASSUME NEW x \in Range(q) PROVE x \in Range(s) \cup Range(t)
  <2>1. PICK i \in 1..(Len(s) + Len(t)) : x = q[i]
    BY <1>2, <1>3 DEF Range
  <2>2. CASE i <= Len(s)
    <3>1. i \in 1..Len(s) /\ x = s[i]
      BY <1>1, <2>1, <2>2
    <3> QED BY <1>2, <3>1 DEF Range
  <2>3. CASE ~(i <= Len(s))
    <3>1. i - Len(s) \in 1..Len(t) /\ x = t[i - Len(s)]
      BY <1>1, <2>1, <2>3
    <3> QED BY <1>2, <3>1 DEF Range
  <2> QED BY <2>2, <2>3
<1>4. ASSUME NEW x \in Range(s) PROVE x \in Range(q)
  <2>1. PICK i \in 1..Len(s) : x = s[i]
    BY <1>2, <1>4 DEF Range
  <2>2. i \in 1..Len(q) /\ x = q[i]
    BY <1>1, <2>1
  <2> QED BY <1>1, <1>2, <2>2 DEF Range
<1>5. ASSUME NEW x \in Range(t) PROVE x \in Range(q)
  <2>1. PICK i \in 1..Len(t) : x = t[i]
    BY <1>2, <1>5 DEF Range
  <2>2. i + Len(s) \in 1..Len(q) /\ ~(i + Len(s) <= Len(s)) /\ (i + Len(s)) - Len(s) = i
    BY <1>1
  <2>3. x = q[i + Len(s)]
    BY <1>1, <2>1, <2>2
  <2> QED BY <1>1, <1>2, <2>2, <2>3 DEF Range
<1> QED BY <1>1, <1>3, <1>4, <1>5 DEF q

\* The parts an added photo is referred to in.
LEMMA PhotoPlan ==
    ASSUME NEW op
    PROVE  /\ CookPhoto(op) \in Seq({"metadata", "comments"})
           /\ RecipePhoto(op) \in Seq({"metadata", "comments", "recipe"})
           /\ CookPhoto(op) \in Seq(Tasks) /\ RecipePhoto(op) \in Seq(Tasks)
<1>1. <<"comments">> \in Seq({"metadata", "comments"})
          /\ <<"metadata">> \in Seq({"metadata", "comments"})
      /\ <<>> \in Seq({"metadata", "comments"})
  BY EmptySeq
<1>2. CookPhoto(op) \in Seq({"metadata", "comments"})
  BY <1>1, ConcatProperties DEF CookPhoto
<1>3. /\ <<"comments">> \in Seq({"metadata", "comments", "recipe"})
      /\ <<"metadata">> \in Seq({"metadata", "comments", "recipe"})
      /\ <<"recipe">> \in Seq({"metadata", "comments", "recipe"})
      /\ <<>> \in Seq({"metadata", "comments", "recipe"})
  BY EmptySeq
<1>4. RecipePhoto(op) \in Seq({"metadata", "comments", "recipe"})
  BY <1>3, ConcatProperties DEF RecipePhoto
<1>5. {"metadata", "comments"} \subseteq Tasks /\ {"metadata", "comments", "recipe"} \subseteq Tasks
  BY DEF Tasks, Parts
<1> QED BY <1>2, <1>4, <1>5

LEMMA AddPlan ==
    ASSUME NEW op, op.name = "addPhoto", kind \in {"cook", "recipe"}
    PROVE  /\ Plan(op) \in Seq(Tasks) /\ Plan(op) # <<>>
           /\ Head(Plan(op)) = "assets"
           /\ "images" \in Range(Tail(Plan(op)))
           /\ Range(Tail(Plan(op))) \subseteq {"images", "metadata", "comments", "recipe"}
           /\ "recipe" \in Range(Plan(op)) => kind = "recipe"
<1> DEFINE t == IF kind = "cook" THEN CookPhoto(op) ELSE RecipePhoto(op)
           s == <<"assets", "images">>
<1>1. t \in Seq(Tasks) /\ Range(t) \subseteq {"metadata", "comments", "recipe"}
      /\ (kind = "cook" => Range(t) \subseteq {"metadata", "comments"})
  BY PhotoPlan DEF Range
<1>2. Plan(op) = s \o t
  BY DEF Plan
<1>3. s \in Seq(Tasks) /\ s # <<>> /\ Head(s) = "assets" /\ Tail(s) = <<"images">>
  BY DEF Tasks, Parts
<1>4. <<"images">> \in Seq(Tasks) /\ Range(<<"images">>) = {"images"}
  BY DEF Tasks, Range
<1> HIDE DEF s, t
<1>5. /\ Plan(op) \in Seq(Tasks) /\ Plan(op) # <<>> /\ Head(Plan(op)) = "assets"
      /\ Tail(Plan(op)) = <<"images">> \o t
  BY <1>1, <1>2, <1>3, Joined
<1>6. Range(Tail(Plan(op))) = {"images"} \cup Range(t)
  BY <1>1, <1>4, <1>5, RangeOfJoined
<1>7. Range(Plan(op)) = {"assets"} \cup Range(Tail(Plan(op)))
  BY <1>5, Ends
<1> QED BY <1>1, <1>5, <1>6, <1>7

LEMMA DeletePlan ==
    ASSUME NEW op, op.name = "deletePhoto", kind \in {"cook", "recipe"}
    PROVE  /\ Plan(op) \in Seq(Tasks) /\ Plan(op) # <<>>
           /\ Head(Plan(op)) = "purge"
           /\ Range(Tail(Plan(op))) = PartsOf(kind) \ {"assets"}
           /\ "recipe" \in Range(Plan(op)) => kind = "recipe"
<1> DEFINE t == IF kind = "recipe" THEN <<"recipe">> ELSE <<>>
           s == <<"purge", "metadata", "comments">>
<1>1. t \in Seq(Tasks) /\ Range(t) = IF kind = "recipe" THEN {"recipe"} ELSE {}
  <2>1. <<"recipe">> \in Seq(Tasks) /\ Range(<<"recipe">>) = {"recipe"}
    BY DEF Range, Tasks, Parts
  <2> QED BY <2>1, EmptySeq, EmptyRange
<1>2. Plan(op) = s \o t
  BY DEF Plan
<1>3. s \in Seq(Tasks) /\ s # <<>> /\ Head(s) = "purge" /\ Tail(s) = <<"metadata", "comments">>
  BY DEF Tasks, Parts
<1>4. <<"metadata", "comments">> \in Seq(Tasks)
          /\ Range(<<"metadata", "comments">>) = {"metadata", "comments"}
  BY DEF Tasks, Parts, Range
<1> HIDE DEF s, t
<1>5. /\ Plan(op) \in Seq(Tasks) /\ Plan(op) # <<>> /\ Head(Plan(op)) = "purge"
      /\ Tail(Plan(op)) = <<"metadata", "comments">> \o t
  BY <1>1, <1>2, <1>3, Joined
<1>6. Range(Tail(Plan(op))) = {"metadata", "comments"} \cup Range(t)
  BY <1>1, <1>4, <1>5, RangeOfJoined
<1>7. Range(Plan(op)) = {"purge"} \cup Range(Tail(Plan(op)))
  BY <1>5, Ends
<1> QED BY <1>1, <1>5, <1>6, <1>7 DEF PartsOf, Parts

\* A request begins with all its plan to do.
LEMMA PlanSorted ==
    ASSUME NEW op \in Ops, kind \in {"cook", "recipe"}
    PROVE  Sorted(op, Plan(op))
<1>1. CASE op.name = "addPhoto"
  <2>1. Range(Plan(op)) = {"assets"} \cup Range(Tail(Plan(op)))
    BY <1>1, AddPlan, Ends
  <2> QED BY <1>1, <2>1, AddPlan DEF Sorted
<1>2. CASE op.name = "deletePhoto"
  <2>1. Range(Plan(op)) = {"purge"} \cup Range(Tail(Plan(op)))
    BY <1>2, DeletePlan, Ends
  <2> QED BY <1>2, <2>1, DeletePlan DEF Sorted, PartsOf, Parts
<1>3. CASE op.name = "put"
  <2>1. op.part \in {"metadata", "recipe", "comments"} /\ kind = "recipe"
    BY <1>3 DEF Ops, CookOps, RecipeOps, Puts
  <2>2. Plan(op) = <<op.part>>
    BY <1>3 DEF Plan
  <2>3. <<op.part>> \in Seq(Tasks) /\ Range(<<op.part>>) = {op.part} /\ <<op.part>> # <<>>
    BY <2>1 DEF Range, Tasks, Parts
  <2> QED BY <1>3, <2>1, <2>2, <2>3 DEF Sorted
<1>4. CASE op.name \notin {"addPhoto", "deletePhoto", "put"}
  <2>1. op.name \in {"setCover", "patchCover", "clearCover", "retitle", "addComment",
            "editComment", "deleteComment"}
    BY <1>4 DEF Ops, CookOps, RecipeOps, Puts
  <2>2. /\ <<"metadata">> \in Seq(Tasks) /\ Range(<<"metadata">>) = {"metadata"}
        /\ <<"comments">> \in Seq(Tasks) /\ Range(<<"comments">>) = {"comments"}
    BY DEF Range, Tasks, Parts
  <2>3. Plan(op) =
          IF op.name \in {"setCover", "patchCover", "clearCover", "retitle"} THEN <<"metadata">>
          ELSE <<"comments">>
    BY <2>1 DEF Plan
  <2> QED BY <2>1, <2>2, <2>3 DEF Sorted
<1> QED BY <1>1, <1>2, <1>3, <1>4

\* What is left after a task is in order too.
LEMMA TailSorted ==
    ASSUME NEW op, NEW todo, Sorted(op, todo), kind \in {"cook", "recipe"}, Len(todo) # 1
    PROVE  Sorted(op, Tail(todo))
<1>1. /\ todo \in Seq(Tasks) /\ todo # <<>> /\ Tail(todo) \in Seq(Tasks) /\ Tail(todo) # <<>>
      /\ Range(Tail(todo)) \subseteq Range(todo)
  BY Ends DEF Sorted
<1>2. "assets" \notin Range(Tail(todo)) /\ "purge" \notin Range(Tail(todo))
  <2>1. CASE "assets" \in Range(todo)
    BY <2>1, AddPlan DEF Sorted
  <2>2. CASE "purge" \in Range(todo)
    BY <2>2, DeletePlan DEF Sorted, PartsOf, Parts
  <2> QED BY <1>1, <2>1, <2>2
<1> QED BY <1>1, <1>2 DEF Sorted

\* The references of a part after an operation are those before it, the photo of an
\* operation that adds one, and not the photo of one that deletes it.
LEMMA ChangeRefs ==
    ASSUME NEW op, NEW part \in {"metadata", "recipe", "comments"}, NEW old,
           part = "recipe" => op.name \in {"addPhoto", "deletePhoto", "put"},
           part = "comments" =>
             op.name \in {"addPhoto", "deletePhoto", "addComment", "editComment", "deleteComment", "put"}
    PROVE  LET new == Change(op, part, old)
           IN  /\ Refs(part, new) \subseteq
                    Refs(part, old)
                      \cup (IF op.name \in {"addPhoto", "setCover", "patchCover"} THEN {op.photo} ELSE {})
               /\ op.name = "deletePhoto" => op.photo \notin Refs(part, new)
<1>0. CASE op.name = "put"
  <2>1. Change(op, part, old) = old
    BY <1>0 DEF Change
  <2> QED BY <1>0, <2>1
<1>1. CASE part = "metadata" /\ op.name # "put"
  BY <1>1 DEF Change, Cover, Refs
<1>2. CASE part = "recipe" /\ op.name # "put"
  BY <1>2 DEF Change, RowsAfter, Refs
<1>3. CASE part = "comments" /\ op.name # "put"
  <2>1. Change(op, part, old) = CommentsAfter(op, old)
    BY <1>3 DEF Change
  <2>2. CASE op.name = "addPhoto"
    BY <1>3, <2>1, <2>2 DEF CommentsAfter, Refs
  <2>3. CASE op.name = "deletePhoto"
    BY <1>3, <2>1, <2>3 DEF CommentsAfter, Refs
  <2>4. CASE op.name = "addComment"
    BY <1>3, <2>1, <2>4 DEF CommentsAfter, Commented, Refs
  <2>5. CASE op.name = "editComment"
    BY <1>3, <2>1, <2>5 DEF CommentsAfter, Refs
  <2>6. CASE op.name = "deleteComment"
    BY <1>3, <2>1, <2>6 DEF CommentsAfter, Uncommented, Restrict, Refs
  <2> QED BY <1>3, <2>2, <2>3, <2>4, <2>5, <2>6
<1> QED BY <1>0, <1>1, <1>2, <1>3

LEMMA NamesOfParts ==
    /\ PartsOf(kind) \subseteq Parts /\ Parts = {"metadata", "comments", "recipe", "assets"}
    /\ "assets" \in PartsOf(kind) /\ "metadata" \in PartsOf(kind) /\ "comments" \in PartsOf(kind)
BY DEF PartsOf, Parts

\* A part that is rewritten leaves the file whole but for what is then left to do.
LEMMA PartDone ==
    ASSUME NEW op, NEW todo, Sorted(op, todo), kind \in {"cook", "recipe"},
           NEW q, NEW i, Whole(q, i, op, todo), Head(todo) \in PartsOf(kind)
    PROVE  Whole(Filled(q, Head(todo), Change(op, Head(todo), q[Head(todo)])), i, op, Tail(todo))
<1> DEFINE part == Head(todo)
           value == Change(op, part, q[part])
           new == Filled(q, part, value)
<1>1. /\ todo \in Seq(Tasks) /\ todo # <<>> /\ Range(todo) = {part} \cup Range(Tail(todo))
  BY Ends DEF Sorted
<1>2. /\ DOMAIN q = PartsOf(kind) /\ part \in Parts
      /\ new = [x \in PartsOf(kind) |-> new[x]]
      /\ new[part] = value /\ \A x \in PartsOf(kind) \ {part} : new[x] = q[x]
  BY NamesOfParts DEF Whole, Filled
<1> HIDE DEF new, value
<1>3. CASE part = "assets"
  <2>1. /\ op.name = "addPhoto" /\ "images" \in Range(Tail(todo))
               /\ "assets" \notin Range(Tail(todo))
        /\ "assets" \in Range(todo)
    BY <1>1, <1>3, AddPlan DEF Sorted
  <2>2. value = q["assets"] \cup {op.photo}
    BY <1>3, <2>1 DEF value, Change
  <2>3. q["assets"] = i
    BY <2>1 DEF Whole, Missing
  <2>4. new["assets"] = i \cup Missing(op, Tail(todo)) /\ op.photo \in new["assets"]
    BY <1>2, <1>3, <2>1, <2>2, <2>3 DEF Missing
  <2>5. ASSUME NEW x \in PartsOf(kind)
        PROVE  Refs(x, new[x]) \subseteq new["assets"] \cup named \cup Dangling(op, Tail(todo), x)
    <3>1. CASE x = "assets"
      BY <3>1 DEF Refs
    <3>2. CASE x # "assets"
      <4>1. new[x] = q[x] /\ Refs(x, q[x]) \subseteq q["assets"] \cup named \cup Dangling(op, todo, x)
        BY <1>2, <1>3, <3>2 DEF Whole
      <4>2. Dangling(op, todo, x) = {}
        BY <2>1 DEF Dangling
      <4> QED BY <2>2, <1>2, <1>3, <4>1, <4>2
    <3> QED BY <3>1, <3>2
  <2> QED BY <1>2, <2>4, <2>5 DEF Whole, new, value
<1>4. CASE part # "assets"
  <2>1. part \in {"metadata", "recipe", "comments"}
    BY <1>2, <1>4, NamesOfParts
  <2>2. "assets" \notin Range(todo) /\ "purge" \notin Range(todo)
    BY <1>4, <2>1, AddPlan, DeletePlan DEF Sorted
  <2>3. new["assets"] = q["assets"]
    BY <1>2, <1>4, NamesOfParts
  <2>4. Missing(op, Tail(todo)) = Missing(op, todo)
    BY <1>1, <2>1, <2>2 DEF Missing
  <2>5. op.name \in {"addPhoto", "setCover", "patchCover"} => op.photo \in q["assets"] \cup named
    BY <2>2 DEF Whole, Registered
  <2>9. op.name \in {"addPhoto", "setCover"} => op.photo \in q["assets"]
    BY <2>2 DEF Whole, Registered
  <2>6. Registered(op, Tail(todo)) => op.photo \in new["assets"]
    BY <1>1, <2>2, <2>3, <2>9 DEF Registered
  <2>7. /\ Refs(part, value) \subseteq
             Refs(part, q[part])
               \cup (IF op.name \in {"addPhoto", "setCover", "patchCover"} THEN {op.photo} ELSE {})
        /\ op.name = "deletePhoto" => op.photo \notin Refs(part, value)
    <3>1. /\ part = "recipe" => op.name \in {"addPhoto", "deletePhoto", "put"}
          /\ part = "comments" =>
                op.name \in {"addPhoto", "deletePhoto", "addComment", "editComment",
                    "deleteComment", "put"}
      BY <1>1 DEF Sorted
    <3> HIDE DEF part
    <3> QED BY <2>1, <3>1, ChangeRefs DEF value
  <2>8. ASSUME NEW x \in PartsOf(kind)
        PROVE  Refs(x, new[x]) \subseteq new["assets"] \cup named \cup Dangling(op, Tail(todo), x)
    <3>1. Refs(x, q[x]) \subseteq q["assets"] \cup named \cup Dangling(op, todo, x)
      BY DEF Whole
    <3>2. CASE x = part
      <4>1. Dangling(op, todo, x) = {}
                \/ (op.name = "deletePhoto" /\ Dangling(op, todo, x) = {op.photo})
        BY DEF Dangling
      <4>2. Refs(x, new[x]) = Refs(part, value) /\ Refs(x, q[x]) = Refs(part, q[part])
        BY <1>2, <3>2
      <4> HIDE DEF part
      <4>3. Refs(part, value) \subseteq q["assets"] \cup named
        BY <2>5, <2>7, <3>1, <4>1, <4>2
      <4> QED BY <2>3, <4>2, <4>3
    <3>3. CASE x # part
      <4>1. Dangling(op, Tail(todo), x) = Dangling(op, todo, x)
        BY <1>1, <3>3 DEF Dangling
      <4> QED BY <1>2, <2>3, <3>1, <3>3, <4>1
    <3> QED BY <3>2, <3>3
  <2>10. op.name = "patchCover" => op.photo \in new["assets"] \cup named
    BY <2>3, <2>5
  <2> QED BY <1>2, <2>3, <2>4, <2>6, <2>8, <2>10 DEF Whole, new, value
<1> QED BY <1>3, <1>4

\* The image of an added photo.
LEMMA ImageDone ==
    ASSUME NEW op, NEW todo, Sorted(op, todo), kind \in {"cook", "recipe"},
           NEW q, NEW i, Whole(q, i, op, todo), Head(todo) = "images"
    PROVE  Whole(q, i \cup {op.photo}, op, Tail(todo))
<1>1. todo \in Seq(Tasks) /\ todo # <<>> /\ Range(todo) = {"images"} \cup Range(Tail(todo))
  BY Ends DEF Sorted
<1>2. op.name = "addPhoto" /\ "assets" \notin Range(todo)
  BY <1>1, AddPlan DEF Sorted
<1>3. q["assets"] = i \cup {op.photo}
  BY <1>1, <1>2 DEF Whole, Missing
<1>4. q["assets"] = (i \cup {op.photo}) \cup Missing(op, Tail(todo))
  BY <1>3 DEF Missing
<1> QED BY <1>2, <1>3, <1>4 DEF Whole, Dangling, Registered

\* The entry and the image of a deleted one.
LEMMA PurgeDone ==
    ASSUME NEW op, NEW todo, Sorted(op, todo), kind \in {"cook", "recipe"},
           NEW q, NEW i, Whole(q, i, op, todo), Head(todo) = "purge"
    PROVE  /\ Whole([q EXCEPT !["assets"] = @ \ {op.photo}], i \ {op.photo}, op, Tail(todo))
           /\ op.photo \in q["assets"] /\ "assets" \in DOMAIN q
<1> DEFINE new == [q EXCEPT !["assets"] = @ \ {op.photo}]
<1>1. todo \in Seq(Tasks) /\ todo # <<>> /\ "purge" \in Range(todo)
  BY Ends DEF Sorted
<1>2. op.name = "deletePhoto" /\ Range(Tail(todo)) = PartsOf(kind) \ {"assets"}
  BY <1>1, DeletePlan DEF Sorted
<1>3. /\ new = [x \in PartsOf(kind) |-> new[x]] /\ new["assets"] = q["assets"] \ {op.photo}
      /\ \A x \in PartsOf(kind) \ {"assets"} : new[x] = q[x]
      /\ op.photo \in q["assets"] /\ "assets" \in DOMAIN q
  BY <1>1, <1>2, NamesOfParts DEF Whole, Registered
<1> HIDE DEF new
<1>4. q["assets"] = i
  BY <1>2 DEF Whole, Missing
<1>5. new["assets"] = (i \ {op.photo}) \cup Missing(op, Tail(todo))
  BY <1>2, <1>3, <1>4 DEF Missing
<1>6. ~Registered(op, Tail(todo))
  <2>1. "purge" \notin PartsOf(kind)
    BY NamesOfParts
  <2> QED BY <1>2, <2>1 DEF Registered
<1>7. ASSUME NEW x \in PartsOf(kind)
      PROVE  Refs(x, new[x]) \subseteq new["assets"] \cup named \cup Dangling(op, Tail(todo), x)
  <2>1. CASE x = "assets"
    BY <2>1 DEF Refs
  <2>2. CASE x # "assets"
    <3>1. Dangling(op, Tail(todo), x) = {op.photo}
      BY <1>2, <2>2 DEF Dangling
    <3>2. Refs(x, q[x]) \subseteq q["assets"] \cup named \cup {op.photo}
      BY DEF Whole, Dangling
    <3> QED BY <1>3, <2>2, <3>1, <3>2
  <2> QED BY <2>1, <2>2
<1>8. Whole(new, i \ {op.photo}, op, Tail(todo))
  BY <1>2, <1>3, <1>5, <1>6, <1>7 DEF Whole
<1> QED BY <1>3, <1>8 DEF new

LEMMA AllDone ==
    ASSUME NEW op, NEW q, NEW i
    PROVE  Whole(q, i, op, <<>>) => Whole(q, i, NoOp, <<>>)
BY EmptyRange DEF Whole, Dangling, Missing, Registered, NoOp

LEMMA NoneDone ==
    ASSUME NEW op \in Ops, kind \in {"cook", "recipe"}, Accepted(op),
           Whole(parts, images, NoOp, <<>>),
           UNCHANGED <<kind, parts, images>>, named' = named \cup (NamedPhotos(op) \ images)
    PROVE  /\ Whole(parts, images, op, Plan(op))'
           /\ op.name = "put" => NamedPhotos(op) \subseteq parts["assets"] \cup named'
<1>1. parts = [x \in PartsOf(kind) |-> parts[x]] /\ parts["assets"] = images
      /\ \A x \in PartsOf(kind) : Refs(x, parts[x]) \subseteq parts["assets"] \cup named
  BY EmptyRange DEF Whole, Dangling, Missing, NoOp
<1>4. op.name = "patchCover" => op.photo \in parts["assets"] \cup named'
  BY <1>1 DEF NamedPhotos
<1>5. Plan(op)' = Plan(op) /\ PartsOf(kind)' = PartsOf(kind)
  BY DEF Plan, PartsOf, CookPhoto, RecipePhoto
<1>6. \A x \in PartsOf(kind) : Refs(x, parts[x]) \subseteq parts["assets"] \cup named'
  BY <1>1
<1>7. op.name = "put" => NamedPhotos(op) \subseteq parts["assets"] \cup named'
  BY <1>1
<1>2. op.name = "addPhoto" => "assets" \in Range(Plan(op))
  BY AddPlan, Ends
<1>3. op.name \in {"deletePhoto", "setCover"} => op.photo \in parts["assets"]
  BY DEF Accepted
<1>8. Registered(op, Plan(op)) => op.photo \in parts["assets"]
  BY <1>2, <1>3 DEF Registered
<1>9. parts["assets"] = images \cup Missing(op, Plan(op))
  BY <1>1, <1>2 DEF Missing
<1> QED BY <1>1, <1>4, <1>5, <1>6, <1>7, <1>8, <1>9 DEF Whole

LEMMA FileInit == ASSUME NEW w, Workers = {w}, Init PROVE FileInv(w)
BY DEF Init, FileInv

LEMMA Replaced ==
    ASSUME NEW w, NEW r, request = [v \in {w} |-> request[v]], request' = [request EXCEPT ![w] = r]
    PROVE  request' = [v \in {w} |-> request'[v]] /\ request'[w] = r
OBVIOUS

\* The part is taken out of the copy and put back.
LEMMA Refilled ==
    ASSUME NEW part \in PartsOf(kind), parts = [x \in PartsOf(kind) |-> parts[x]]
    PROVE  /\ DOMAIN Restrict(parts, DOMAIN parts \ {part}) = PartsOf(kind) \ {part}
           /\ Filled(parts, part, parts[part]) = parts
           /\ \A value : Filled(Restrict(parts, DOMAIN parts \ {part}), part, value)
                           = Filled(parts, part, value)
BY DEF Restrict, Filled

\* The kind of the file never changes; what is left to do depends on it and on the
\* photos clients have named.
LEMMA SameKind ==
    ASSUME kind' = kind, named' = named
    PROVE  /\ PartsOf(kind') = PartsOf(kind)
           /\ \A op, todo : Sorted(op, todo)' <=> Sorted(op, todo)
           /\ \A q, i, op, todo : Whole(q, i, op, todo)' <=> Whole(q, i, op, todo)
BY DEF Sorted, Whole, Plan, CookPhoto, RecipePhoto, PartsOf

LEMMA Reading ==
    ASSUME NEW g, DOMAIN g = {"op", "todo", "phase", "content", "copy"}, g.phase = "read",
           kind' = kind, there', Sorted(g.op, g.todo),
           Whole(parts, images, g.op, g.todo)'
    PROVE  AtWork(g)'
<1>1. Sorted(g.op, g.todo)'
  BY DEF Sorted, Plan, CookPhoto, RecipePhoto
<1>2. Whole(parts, images, g.op, g.todo)'
  OBVIOUS
<1> QED BY <1>1, <1>2 DEF AtWork

\* What follows a task.
LEMMA FollowingIs ==
    ASSUME NEW r, Sorted(r.op, r.todo), kind \in {"cook", "recipe"}, kind' = kind, there',
           named' = named,
           Whole(parts', images', r.op, Tail(r.todo))
    PROVE  IF Following(r) = Idle THEN Whole(parts', images', NoOp, <<>>) ELSE AtWork(Following(r))'
<1>1. r.todo \in Seq(Tasks) /\ r.todo # <<>>
  BY DEF Sorted
<1>2. CASE Len(r.todo) = 1
  <2>1. Tail(r.todo) = <<>>
    BY <1>1, <1>2, Ends
  <2>2. Following(r) = Idle
    BY <1>2 DEF Following
  <2> QED BY <2>1, <2>2, AllDone
<1>3. CASE Len(r.todo) # 1
  <2> DEFINE g == Following(r)
  <2>1. /\ g.op = r.op /\ g.todo = Tail(r.todo) /\ g.phase = "read"
        /\ DOMAIN g = {"op", "todo", "phase", "content", "copy"}
    BY <1>3 DEF Following, Idle
  <2>2. g.todo # <<>> /\ Idle.todo = <<>>
    BY <1>1, <1>3, <2>1, Ends DEF Idle
  <2>3. g # Idle
    BY <2>2
  <2>4. Sorted(g.op, g.todo)
    BY <1>3, <2>1, TailSorted
  <2> HIDE DEF g
  <2>5. Whole(parts, images, g.op, g.todo)'
    BY <2>1 DEF Whole
  <2>6. AtWork(g)'
    BY <2>1, <2>4, <2>5, Reading
  <2> QED BY <2>3, <2>6 DEF g
<1> QED BY <1>2, <1>3

LEMMA EmptyRefs == ASSUME NEW part PROVE Refs(part, Empty(part)) = {}
<1>1. DOMAIN <<>> = {}
  OBVIOUS
<1> QED BY <1>1 DEF Refs, Empty

LEMMA NewWhole ==
    ASSUME NEW photos, NEW cover, NEW q, UNCHANGED kind, named' = named \cup (cover \ photos),
           q = [part \in PartsOf(kind) |->
                  IF part = "assets" THEN photos ELSE IF part = "metadata" THEN cover ELSE Empty(part)],
           parts' = q, images' = photos
    PROVE  Whole(parts, images, NoOp, <<>>)'
<1>1. q["assets"] = photos
  BY NamesOfParts
<1>2. ASSUME NEW part \in PartsOf(kind) PROVE Refs(part, q[part]) \subseteq photos \cup named'
  <2>1. CASE part \in {"assets", "metadata"}
    BY <2>1 DEF Refs
  <2>2. CASE part \notin {"assets", "metadata"}
    BY <2>2, EmptyRefs
  <2> QED BY <2>1, <2>2
<1>3. PartsOf(kind)' = PartsOf(kind)
  OBVIOUS
<1> QED BY <1>1, <1>2, <1>3 DEF Whole, Missing, Registered, NoOp

LEMMA WriteNewStep ==
    ASSUME NEW w, Workers = {w}, FileInv(w), NEW k, WriteNew(k)
    PROVE  FileInv(w)'
<1>1. /\ UNCHANGED <<kind, named, request>> /\ images' = {} /\ request[w] = Idle
      /\ parts' = [part \in PartsOf(kind) |-> Empty(part)]
  BY DEF WriteNew
<1>2. parts' = [part \in PartsOf(kind) |->
                     IF part = "assets" THEN {} ELSE IF part = "metadata" THEN {} ELSE Empty(part)]
  BY <1>1 DEF Empty
<1>4. named' = named \cup ({} \ {})
  BY <1>1
<1>3. Whole(parts, images, NoOp, <<>>)'
  BY <1>1, <1>2, <1>4, NewWhole
<1> QED BY <1>1, <1>3 DEF FileInv

LEMMA ImportStep ==
    ASSUME NEW w, Workers = {w}, FileInv(w), NEW photos, NEW cover, Import(photos, cover)
    PROVE  FileInv(w)'
<1>1. UNCHANGED <<kind, request>> /\ request[w] = Idle
  BY DEF Import
<1>3. parts' = [part \in PartsOf(kind) |->
                     IF part = "assets" THEN photos ELSE IF part = "metadata" THEN cover ELSE Empty(part)]
  BY DEF Import
<1>2. Whole(parts, images, NoOp, <<>>)'
  BY <1>1, <1>3, NewWhole DEF Import
<1> QED BY <1>1, <1>2 DEF FileInv

LEMMA DeleteStep ==
    ASSUME NEW w, Workers = {w}, FileInv(w), Delete
    PROVE  FileInv(w)'
BY DEF Delete, FileInv

\* A PUT holds what it brings from the start.
LEMMA PutOpens ==
    ASSUME NEW op \in Ops, op.name = "put", kind \in {"cook", "recipe"}, there,
           UNCHANGED <<kind, there, parts, images>>, Sorted(op, Plan(op)),
           Whole(parts, images, op, Plan(op))',
           NamedPhotos(op) \subseteq parts["assets"] \cup named',
           NEW g, DOMAIN g = {"op", "todo", "phase", "content", "copy"},
           g.op = op, g.todo = Plan(op), g.phase = "copy", g.content = Brought(op)
    PROVE  AtWork(g)'
<1>1. /\ op.part \in {"metadata", "recipe", "comments"} /\ kind = "recipe"
      /\ g.todo = <<op.part>> /\ Plan(op)' = <<op.part>>
  BY DEF Ops, CookOps, RecipeOps, Puts, Plan
<1>2. Head(g.todo) = op.part /\ op.part \in PartsOf(kind) /\ op.part # "assets"
      /\ PartsOf(kind)' = PartsOf(kind) /\ "assets" \in PartsOf(kind)
  BY <1>1 DEF PartsOf, Parts
<1>3. Refs(op.part, Brought(op)) \subseteq parts["assets"] \cup named'
  <2>1. NamedPhotos(op) = op.photos
    BY DEF NamedPhotos
  <2> QED BY <2>1 DEF Refs, Brought
<1> DEFINE q == Filled(parts, op.part, Brought(op))
<1>4. /\ DOMAIN parts = PartsOf(kind) /\ parts["assets"] = images \cup Missing(op, g.todo)
      /\ \A x \in PartsOf(kind) :
             Refs(x, parts[x]) \subseteq parts["assets"] \cup named' \cup Dangling(op, g.todo, x)
  BY <1>1, <1>2 DEF Whole, Missing, Dangling
<1>5. /\ q = [x \in PartsOf(kind) |-> q[x]] /\ q[op.part] = Brought(op)
      /\ \A x \in PartsOf(kind) \ {op.part} : q[x] = parts[x]
  BY <1>2, <1>4 DEF Filled
<1> HIDE DEF q
<1>6. \A x \in PartsOf(kind) :
         Refs(x, q[x]) \subseteq q["assets"] \cup named' \cup Dangling(op, g.todo, x)
  BY <1>2, <1>3, <1>4, <1>5
<1>11. ~Registered(op, g.todo) /\ op.name # "patchCover" /\ q["assets"] = parts["assets"]
  BY <1>2, <1>5 DEF Registered
<1>7. Whole(q, images, op, g.todo)'
  <2>1. PICK a : a = q
    OBVIOUS
  <2>2. PICK i, todo : i = images /\ todo = g.todo
    OBVIOUS
  <2>3. Whole(a, i, op, todo)'
    BY <1>2, <1>4, <1>5, <1>6, <1>11, <2>1, <2>2 DEF Whole
  <2>4. q' = a
    BY <2>1 DEF q, Filled
  <2> QED BY <2>2, <2>3, <2>4
<1>8. Whole(Filled(parts, Head(g.todo), g.content), images, g.op, g.todo)'
  BY <1>2, <1>7 DEF q, Filled, Whole
<1>9. Sorted(g.op, g.todo)'
  BY DEF Sorted, Plan, CookPhoto, RecipePhoto
<1>10. Whole(parts, images, g.op, g.todo)'
  BY <1>1 DEF Whole
<1> QED BY <1>2, <1>8, <1>9, <1>10 DEF AtWork

LEMMA BeginStep ==
    ASSUME NEW w, FileInv(w), NEW op \in Ops, Begin(w, op)
    PROVE  FileInv(w)'
<1> DEFINE r == Opened(op)
<1>1. /\ request[w] = Idle /\ there /\ Accepted(op) /\ UNCHANGED <<kind, there, parts, images>>
      /\ request' = [request EXCEPT ![w] = r] /\ named' = named \cup (NamedPhotos(op) \ images)
  BY DEF Begin, Accepted
<1>2. /\ r.op = op /\ r.todo = Plan(op)
      /\ DOMAIN r = {"op", "todo", "phase", "content", "copy"}
      /\ op.name # "put" => r.phase = "read"
      /\ op.name = "put" => r.phase = "copy" /\ r.content = Brought(op)
  BY DEF Idle, Opened
<1>3. /\ Sorted(op, Plan(op)) /\ Whole(parts, images, op, Plan(op))'
      /\ op.name = "put" => NamedPhotos(op) \subseteq parts["assets"] \cup named'
  BY <1>1, PlanSorted, NoneDone DEF FileInv
<1>4. r # Idle
  <2>1. Idle.todo = <<>> /\ r.todo # <<>>
    BY <1>2, <1>3 DEF Sorted, Idle
  <2> QED BY <2>1
<1> HIDE DEF r
<1>5. request' = [v \in {w} |-> request'[v]] /\ request'[w] = r
  BY <1>1, Replaced DEF FileInv
<1>6. PICK g : g = r
  OBVIOUS
<1>7. CASE op.name # "put"
  <2>3. Plan(op)' = Plan(op)
    BY <1>1 DEF Plan, CookPhoto, RecipePhoto
  <2>1. Whole(parts, images, g.op, g.todo)'
    BY <1>2, <1>3, <1>6, <2>3
  <2>2. AtWork(g)'
    BY <1>1, <1>2, <1>3, <1>6, <1>7, <2>1, Reading
  <2> QED BY <1>1, <1>4, <1>5, <1>6, <2>2 DEF FileInv
<1>8. CASE op.name = "put"
  <2>1. AtWork(g)'
    BY <1>1, <1>2, <1>3, <1>6, <1>8, PutOpens DEF FileInv
  <2> QED BY <1>1, <1>4, <1>5, <1>6, <2>1 DEF FileInv
<1> QED BY <1>7, <1>8

LEMMA GoesOn ==
    ASSUME NEW w, FileInv(w), kind' = kind, NEW g, request' = [request EXCEPT ![w] = g],
           IF g = Idle THEN there' => Whole(parts, images, NoOp, <<>>)' ELSE AtWork(g)'
    PROVE  FileInv(w)'
<1>1. request' = [v \in {w} |-> request'[v]] /\ request'[w] = g
  BY Replaced DEF FileInv
<1> QED BY <1>1 DEF FileInv

\* A phase that leaves more to do leaves the worker at work.
LEMMA NotIdle == ASSUME NEW r, NEW g, Sorted(r.op, r.todo), g.todo = r.todo PROVE g # Idle
BY DEF Sorted, Idle

LEMMA ReadStep ==
    ASSUME NEW w, FileInv(w), ReadPart(w)
    PROVE  FileInv(w)'
<1>1. PICK r : r = request[w]
  OBVIOUS
<1>2. /\ r # Idle /\ AtWork(r) /\ r.phase = "read" /\ Head(r.todo) \in Parts
      /\ UNCHANGED <<kind, there, parts, images, named>>
  BY <1>1 DEF FileInv, ReadPart, Busy, Task
<1>3. Head(r.todo) \in PartsOf(kind)
  <2>1. Head(r.todo) \in Range(r.todo)
    BY <1>2, Ends DEF AtWork, Sorted
  <2> QED BY <1>2, <2>1 DEF AtWork, Sorted, PartsOf, FileInv
<1>4. Head(r.todo) \in DOMAIN parts
  BY <1>2, <1>3 DEF AtWork, Whole
<1>5. PICK g : g = [r EXCEPT !.content = parts[Head(r.todo)], !.phase = "copy"]
  OBVIOUS
<1>6. request' = [request EXCEPT ![w] = g]
  BY <1>1, <1>4, <1>5 DEF ReadPart, Task
<1>7. /\ g.op = r.op /\ g.todo = r.todo /\ g.phase = "copy" /\ g.content = parts[Head(r.todo)]
      /\ DOMAIN g = {"op", "todo", "phase", "content", "copy"}
  BY <1>2, <1>5 DEF AtWork
<1>10. Filled(parts, Head(g.todo), g.content) = parts
  BY <1>2, <1>3, <1>7, Refilled DEF AtWork, Whole
<1>11. Whole(Filled(parts, Head(g.todo), g.content), images, g.op, g.todo)'
  BY <1>2, <1>7, <1>10 DEF AtWork, Whole, Filled
<1>8. AtWork(g)'
  BY <1>2, <1>3, <1>7, <1>11, SameKind DEF AtWork, Whole
<1>9. g # Idle
  BY <1>2, <1>7, NotIdle DEF AtWork
<1> QED BY <1>2, <1>6, <1>8, <1>9, GoesOn

LEMMA CopyStep ==
    ASSUME NEW w, FileInv(w), Copy(w)
    PROVE  FileInv(w)'
<1>1. PICK r : r = request[w]
  OBVIOUS
<1>2. /\ r # Idle /\ AtWork(r) /\ r.phase = "copy" /\ there
      /\ UNCHANGED <<kind, there, parts, images, named>>
  BY <1>1 DEF FileInv, Copy, Busy, AtWork
<1>3. PICK g : g = [r EXCEPT !.copy = <<Restrict(parts, DOMAIN parts \ {Head(r.todo)}), images>>,
                             !.phase = "remove"]
  OBVIOUS
<1>4. request' = [request EXCEPT ![w] = g]
  BY <1>1, <1>2, <1>3 DEF Copy, Task
<1>5. /\ g.op = r.op /\ g.todo = r.todo /\ g.phase = "remove" /\ g.content = r.content
      /\ g.copy = <<Restrict(parts, DOMAIN parts \ {Head(r.todo)}), images>>
      /\ DOMAIN g = {"op", "todo", "phase", "content", "copy"}
  BY <1>2, <1>3 DEF AtWork
<1>8. Whole(Filled(parts, Head(g.todo), g.content), images, g.op, g.todo)'
  <2>1. Whole(Filled(parts, Head(g.todo), g.content), images, g.op, g.todo)
    BY <1>2, <1>5 DEF AtWork
  <2> QED BY <1>2, <2>1 DEF Whole, Filled, PartsOf
<1>6. AtWork(g)'
  BY <1>2, <1>5, <1>8, SameKind DEF AtWork, Whole
<1>7. g # Idle
  BY <1>2, <1>5, NotIdle DEF AtWork
<1> QED BY <1>2, <1>4, <1>6, <1>7, GoesOn

LEMMA RemoveStep ==
    ASSUME NEW w, FileInv(w), Remove(w)
    PROVE  FileInv(w)'
<1>1. PICK r : r = request[w]
  OBVIOUS
<1>2. r # Idle /\ AtWork(r) /\ r.phase = "remove" /\ there /\ kind' = kind /\ named' = named
  BY <1>1 DEF FileInv, Remove, Busy, AtWork
<1>3. PICK g : g = [r EXCEPT !.phase = "rename"]
  OBVIOUS
<1>4. request' = [request EXCEPT ![w] = g]
  BY <1>1, <1>2, <1>3 DEF Remove
<1>5. /\ g.op = r.op /\ g.todo = r.todo /\ g.phase = "rename" /\ g.content = r.content /\ g.copy = r.copy
      /\ DOMAIN g = {"op", "todo", "phase", "content", "copy"}
  BY <1>2, <1>3 DEF AtWork
<1>6. /\ DOMAIN g.copy[1] = PartsOf(kind) \ {Head(g.todo)}
      /\ Whole(Filled(g.copy[1], Head(g.todo), g.content), g.copy[2], g.op, g.todo)
  <2>1. /\ g.copy = <<Restrict(parts, DOMAIN parts \ {Head(r.todo)}), images>>
        /\ Head(r.todo) \in PartsOf(kind) /\ Whole(parts, images, r.op, r.todo)
        /\ Whole(Filled(parts, Head(r.todo), r.content), images, r.op, r.todo)
    BY <1>2, <1>5 DEF AtWork
  <2>2. parts = [x \in PartsOf(kind) |-> parts[x]]
    BY <2>1 DEF Whole
  <2>3. /\ DOMAIN Restrict(parts, DOMAIN parts \ {Head(r.todo)}) = PartsOf(kind) \ {Head(r.todo)}
        /\ Filled(Restrict(parts, DOMAIN parts \ {Head(r.todo)}), Head(r.todo), r.content)
             = Filled(parts, Head(r.todo), r.content)
    BY <2>1, <2>2, Refilled
  <2>4. g.copy[1] = Restrict(parts, DOMAIN parts \ {Head(r.todo)}) /\ g.copy[2] = images
    BY <2>1
  <2> QED BY <1>5, <2>1, <2>3, <2>4
<1>7. AtWork(g)'
  BY <1>2, <1>5, <1>6, SameKind DEF AtWork, Filled
<1>8. g # Idle
  BY <1>2, <1>5, NotIdle DEF AtWork
<1> QED BY <1>2, <1>4, <1>7, <1>8, GoesOn

LEMMA RenameStep ==
    ASSUME NEW w, FileInv(w), Rename(w)
    PROVE  FileInv(w)'
<1>1. PICK r : r = request[w]
  OBVIOUS
<1>2. /\ r # Idle /\ AtWork(r) /\ r.phase = "rename" /\ kind' = kind /\ named' = named
      /\ there' = TRUE /\ parts' = r.copy[1] /\ images' = r.copy[2]
  BY <1>1 DEF FileInv, Rename, Busy
<1>3. PICK g : g = [r EXCEPT !.phase = "append"]
  OBVIOUS
<1>4. request' = [request EXCEPT ![w] = g]
  BY <1>1, <1>2, <1>3 DEF Rename
<1>5. /\ g.op = r.op /\ g.todo = r.todo /\ g.phase = "append" /\ g.content = r.content
      /\ DOMAIN g = {"op", "todo", "phase", "content", "copy"}
  BY <1>2, <1>3 DEF AtWork
<1>6. /\ DOMAIN parts' = PartsOf(kind) \ {Head(g.todo)}
      /\ Whole(Filled(parts', Head(g.todo), g.content), images', g.op, g.todo)
  BY <1>2, <1>5 DEF AtWork
<1>7. Whole(Filled(parts, Head(g.todo), g.content), images, g.op, g.todo)'
  BY <1>2, <1>6 DEF Whole, Filled
<1>8. AtWork(g)'
  BY <1>2, <1>5, <1>6, <1>7, SameKind DEF AtWork
<1>9. g # Idle
  BY <1>2, <1>5, NotIdle DEF AtWork
<1> QED BY <1>2, <1>4, <1>8, <1>9, GoesOn

\* A task that is done: what follows is Following(r).
LEMMA DoneStep ==
    ASSUME NEW w, FileInv(w), kind' = kind, named' = named, there', NEW r, Sorted(r.op, r.todo),
           request' = [request EXCEPT ![w] = Following(r)],
           Whole(parts', images', r.op, Tail(r.todo))
    PROVE  FileInv(w)'
<1>1. IF Following(r) = Idle THEN Whole(parts', images', NoOp, <<>>) ELSE AtWork(Following(r))'
  BY FollowingIs DEF FileInv
<1>2. PICK g : g = Following(r)
  OBVIOUS
<1>3. g = Idle => Whole(parts, images, NoOp, <<>>)'
  BY <1>1, <1>2 DEF Whole
<1>4. g # Idle => AtWork(g)'
  BY <1>1, <1>2
<1> QED BY <1>2, <1>3, <1>4, GoesOn

LEMMA AppendStep ==
    ASSUME NEW w, FileInv(w), AppendPart(w)
    PROVE  FileInv(w)'
<1>1. PICK r : r = request[w]
  OBVIOUS
<1> DEFINE part == Head(r.todo)
           q == Filled(parts, part, r.content)
<1>2. /\ r # Idle /\ AtWork(r) /\ r.phase = "append" /\ kind' = kind /\ there' /\ images' = images
      /\ named' = named
      /\ parts' = Filled(parts, part, Change(r.op, part, r.content))
      /\ request' = [request EXCEPT ![w] = Following(r)]
  BY <1>1 DEF FileInv, AppendPart, Busy, Task, Filled
<1>3. /\ Sorted(r.op, r.todo) /\ part \in PartsOf(kind) /\ Whole(q, images, r.op, r.todo)
      /\ DOMAIN parts = PartsOf(kind) \ {part} /\ kind \in {"cook", "recipe"}
  BY <1>2 DEF AtWork, FileInv
<1>4. Whole(Filled(q, part, Change(r.op, part, q[part])), images, r.op, Tail(r.todo))
  BY <1>3, PartDone
<1>5. Filled(q, part, Change(r.op, part, q[part])) = parts'
  BY <1>2, <1>3 DEF Filled
<1> QED BY <1>2, <1>3, <1>4, <1>5, DoneStep

LEMMA ImageStep ==
    ASSUME NEW w, FileInv(w), AddImage(w)
    PROVE  FileInv(w)'
<1>1. PICK r : r = request[w]
  OBVIOUS
<1>2. /\ r # Idle /\ AtWork(r) /\ r.phase = "read" /\ Head(r.todo) = "images"
      /\ kind' = kind /\ named' = named /\ there' /\ parts' = parts /\ images' = images \cup {r.op.photo}
      /\ request' = [request EXCEPT ![w] = Following(r)]
  BY <1>1 DEF FileInv, AddImage, Busy, Task
<1>3. Sorted(r.op, r.todo) /\ Whole(parts, images, r.op, r.todo) /\ kind \in {"cook", "recipe"}
  BY <1>2 DEF AtWork, FileInv
<1>4. Whole(parts, images \cup {r.op.photo}, r.op, Tail(r.todo))
  BY <1>2, <1>3, ImageDone
<1> QED BY <1>2, <1>3, <1>4, DoneStep

LEMMA PurgeStep ==
    ASSUME NEW w, FileInv(w), Purge(w)
    PROVE  FileInv(w)'
<1>1. PICK r : r = request[w]
  OBVIOUS
<1>2. /\ r # Idle /\ AtWork(r) /\ r.phase = "read" /\ Head(r.todo) = "purge"
      /\ kind' = kind /\ named' = named /\ there' = there
  BY <1>1 DEF FileInv, Purge, Busy, Task
<1>3. /\ Sorted(r.op, r.todo) /\ Whole(parts, images, r.op, r.todo) /\ there
      /\ kind \in {"cook", "recipe"}
  BY <1>2 DEF AtWork, FileInv
<1>4. /\ Whole([parts EXCEPT !["assets"] = @ \ {r.op.photo}], images \ {r.op.photo}, r.op,
             Tail(r.todo))
      /\ r.op.photo \in parts["assets"] /\ "assets" \in DOMAIN parts
  BY <1>2, <1>3, PurgeDone
<1>5. /\ parts' = [parts EXCEPT !["assets"] = @ \ {r.op.photo}] /\ images' = images \ {r.op.photo}
      /\ request' = [request EXCEPT ![w] = Following(r)]
  BY <1>1, <1>3, <1>4 DEF Purge
<1> QED BY <1>2, <1>3, <1>4, <1>5, DoneStep

LEMMA FileStep ==
    ASSUME NEW w, Workers = {w}, FileInv(w), [Next]_vars
    PROVE  FileInv(w)'
<1>1. CASE UNCHANGED vars
  <2>1. UNCHANGED <<kind, there, parts, images, named, request>>
    BY <1>1 DEF vars
  <2>2. Whole(parts, images, NoOp, <<>>)' <=> Whole(parts, images, NoOp, <<>>)
    BY <2>1 DEF Whole, PartsOf
  <2>3. PICK r : r = request[w]
    OBVIOUS
  <2>4. AtWork(r)' <=> AtWork(r)
    <3>1. Whole(parts, images, r.op, r.todo)' <=> Whole(parts, images, r.op, r.todo)
      BY <2>1 DEF Whole, PartsOf
    <3>2. Whole(Filled(parts, Head(r.todo), r.content), images, r.op, r.todo)'
            <=> Whole(Filled(parts, Head(r.todo), r.content), images, r.op, r.todo)
      BY <2>1 DEF Whole, PartsOf, Filled
    <3>3. Whole(Filled(r.copy[1], Head(r.todo), r.content), r.copy[2], r.op, r.todo)'
            <=> Whole(Filled(r.copy[1], Head(r.todo), r.content), r.copy[2], r.op, r.todo)
      BY <2>1 DEF Whole, PartsOf, Filled
    <3>4. Sorted(r.op, r.todo)' <=> Sorted(r.op, r.todo)
      BY <2>1, SameKind
    <3> QED BY <2>1, <3>1, <3>2, <3>3, <3>4 DEF AtWork, PartsOf
  <2> QED BY <2>1, <2>2, <2>3, <2>4 DEF FileInv
<1>2. CASE Step(w)
  BY <1>2, BeginStep, ReadStep, CopyStep, RemoveStep, RenameStep, AppendStep, ImageStep, PurgeStep
     DEF Step
<1>3. CASE \/ CreateCook \/ CreateRecipe \/ Delete
           \/ \E p \in Photos, cover \in SUBSET Photos : Import({p}, cover)
  BY <1>3, WriteNewStep, DeleteStep, ImportStep DEF CreateCook, CreateRecipe
<1> QED BY <1>1, <1>2, <1>3 DEF Next

LEMMA FileHolds ==
    ASSUME NEW w, Workers = {w}, FileInv(w)
    PROVE  FileIsWhole
<1>1. ASSUME there, request[w] = Idle PROVE Whole(parts, images, NoOp, <<>>)
  BY <1>1 DEF FileInv
<1>2. ASSUME Whole(parts, images, NoOp, <<>>)
      PROVE  /\ DOMAIN parts = PartsOf(kind)
             /\ \A part \in DOMAIN parts : References(part) \subseteq parts["assets"] \cup named
             /\ parts["assets"] = images
  BY <1>2, EmptyRange DEF Whole, Dangling, Missing, NoOp, References, Refs
<1> QED BY <1>1, <1>2 DEF FileIsWhole

-----------------------------------------------------------------------------
(* The types, for any number of workers.                                   *)

Steps == {"read", "copy", "remove", "rename", "append"}

\* A request that came in: what it is about, and what it holds once it has read it.
Serving(r) ==
    /\ DOMAIN r = {"op", "todo", "phase", "content", "copy"}
    /\ r.op \in Ops /\ Sorted(r.op, r.todo) /\ r.phase \in Steps
    /\ r.phase # "read" => Head(r.todo) \in Parts
    /\ r.phase \in {"remove", "rename"}
          => DOMAIN r.copy[1] \subseteq Parts /\ r.copy[2] \subseteq Photos

\* Beside TypeOK: a request under way is one of Ops with a rest of its plan.
FileTypes ==
    /\ kind \in {"cook", "recipe"} /\ there \in BOOLEAN
    /\ DOMAIN parts \subseteq Parts /\ images \subseteq Photos
          /\ used \subseteq Photos \cup Comments /\ named \subseteq Photos
    /\ request = [w \in Workers |-> request[w]]
    /\ \A w \in Workers : request[w] = Idle \/ Serving(request[w])

LEMMA OpFields ==
    ASSUME NEW op \in Ops
    PROVE  /\ op.name \in {"addPhoto", "deletePhoto", "setCover", "patchCover"} => op.photo \in Photos
           /\ op.name = "addComment" => op.comment \in Comments
           /\ NamedPhotos(op) \subseteq Photos /\ NamedComments(op) \subseteq Comments
           /\ op.name = "put" => op.part \in Parts
BY DEF Ops, CookOps, RecipeOps, Puts, NamedPhotos, NamedComments, Parts

\* The kind of the file never changes.
LEMMA ServingStays == ASSUME kind' = kind, NEW r, Serving(r) PROVE Serving(r)'
<1>1. Sorted(r.op, r.todo)'
  BY DEF Serving, Sorted, Plan, CookPhoto, RecipePhoto
<1>2. Ops' = Ops
  BY DEF Ops, CookOps, RecipeOps, Puts
<1> QED BY <1>1, <1>2 DEF Serving

\* One worker's request changes, and the others' do not.
LEMMA OneChanges ==
    ASSUME FileTypes, kind' = kind, NEW w \in Workers, NEW r, r = Idle \/ Serving(r),
           request' = [request EXCEPT ![w] = r]
    PROVE  /\ request' = [v \in Workers |-> request'[v]]
           /\ \A v \in Workers : request'[v] = Idle \/ Serving(request[v])'
<1>1. \A v \in Workers : request'[v] = IF v = w THEN r ELSE request[v]
  BY DEF FileTypes
<1>2. request' = [v \in Workers |-> request'[v]]
  BY DEF FileTypes
<1>3. ASSUME NEW v \in Workers PROVE request'[v] = Idle \/ Serving(request[v])'
  <2>1. PICK g : g = request'[v]
    OBVIOUS
  <2>2. g = Idle \/ Serving(g)
    BY <1>1, <2>1 DEF FileTypes
  <2>3. g = Idle \/ Serving(g)'
    BY <2>2, ServingStays
  <2> QED BY <2>1, <2>3 DEF Serving
<1> QED BY <1>2, <1>3

LEMMA FollowingServes ==
    ASSUME NEW r, Serving(r), kind \in {"cook", "recipe"}
    PROVE  Following(r) = Idle \/ Serving(Following(r))
<1>1. CASE Len(r.todo) = 1
  BY <1>1 DEF Following
<1>2. CASE Len(r.todo) # 1
  <2>1. Sorted(r.op, Tail(r.todo))
    BY <1>2, TailSorted DEF Serving
  <2> DEFINE f == [Idle EXCEPT !.op = r.op, !.todo = Tail(r.todo)]
  <2>2. f.op = r.op /\ f.todo = Tail(r.todo) /\ f.phase = "read"
            /\ DOMAIN f = {"op", "todo", "phase", "content", "copy"}
    BY DEF Idle
  <2>3. Following(r) = f
    BY <1>2 DEF Following
  <2> HIDE DEF f
  <2> QED BY <2>1, <2>2, <2>3 DEF Serving, Steps
<1> QED BY <1>1, <1>2

LEMMA FileTypesInit == Init => FileTypes
<1> SUFFICES ASSUME Init PROVE FileTypes
  OBVIOUS
<1>1. DOMAIN parts \subseteq Parts
  BY DEF Init
<1>2. /\ request = [w \in Workers |-> request[w]]
      /\ \A w \in Workers : request[w] = Idle
  BY DEF Init
<1> QED BY <1>1, <1>2 DEF Init, FileTypes

LEMMA FileTypesWorker ==
    ASSUME FileTypes, NEW w \in Workers, Step(w)
    PROVE  FileTypes'
<1> DEFINE r == request[w]
<1>0. /\ kind \in {"cook", "recipe"} /\ kind' = kind
      /\ r # Idle => Serving(r)
  BY DEF FileTypes, Step, Begin, ReadPart, Copy, Remove, Rename, AppendPart, AddImage, Purge
<1>1. ASSUME NEW g, g = Idle \/ Serving(g), request' = [request EXCEPT ![w] = g],
             there' \in BOOLEAN, DOMAIN parts' \subseteq Parts, images' \subseteq Photos,
             used' \subseteq Photos \cup Comments, named' \subseteq Photos
      PROVE  FileTypes'
  BY <1>0, <1>1, OneChanges DEF FileTypes
<1>2. ASSUME r # Idle
      PROVE  /\ r.todo \in Seq(Tasks) /\ r.todo # <<>> /\ Head(r.todo) \in Range(r.todo)
             /\ DOMAIN r = {"op", "todo", "phase", "content", "copy"} /\ r.op \in Ops
             /\ Sorted(r.op, r.todo)
  BY <1>0, <1>2, Ends DEF Serving, Sorted
<1>3. CASE \E op \in Ops : Begin(w, op)
  <2>1. PICK op \in Ops : Begin(w, op)
    BY <1>3
  <2> DEFINE g == Opened(op)
  <2>2. /\ g.op = op /\ g.todo = Plan(op) /\ g.phase \in {"read", "copy"}
        /\ g.phase = "copy" => op.name = "put"
        /\ DOMAIN g = {"op", "todo", "phase", "content", "copy"}
    BY DEF Idle, Opened
  <2>6. op.name = "put" => Head(Plan(op)) \in Parts
    BY OpFields DEF Plan
  <2>3. request' = [request EXCEPT ![w] = g]
    BY <2>1 DEF Begin
  <2> HIDE DEF g
  <2>4. Serving(g)
    BY <1>0, <2>2, <2>6, PlanSorted DEF Serving, Steps
  <2>5. used' \subseteq Photos \cup Comments /\ named' \subseteq Photos
    BY <2>1, OpFields DEF Begin, NewIds, FileTypes
  <2> QED BY <1>1, <2>1, <2>3, <2>4, <2>5 DEF Begin, FileTypes
<1>4. CASE ReadPart(w)
  <2> DEFINE v == IF Task(w) \in DOMAIN parts THEN parts[Task(w)] ELSE Empty(Task(w))
  <2>1. PICK g : g = [r EXCEPT !.content = v, !.phase = "copy"]
    OBVIOUS
  <2>2. request' = [request EXCEPT ![w] = g]
    BY <1>4, <2>1 DEF ReadPart, FileTypes
  <2> HIDE DEF v
  <2>3. r # Idle /\ Head(r.todo) \in Parts
    BY <1>4 DEF ReadPart, Busy, Task
  <2>4. g.op = r.op /\ g.todo = r.todo /\ g.phase = "copy"
            /\ DOMAIN g = {"op", "todo", "phase", "content", "copy"}
    BY <1>2, <2>1, <2>3
  <2>5. Serving(g)
    BY <1>2, <2>3, <2>4 DEF Serving, Steps
  <2> QED BY <1>1, <1>4, <2>2, <2>5 DEF ReadPart, FileTypes
<1>5. CASE Copy(w)
  <2>1. r # Idle /\ r.phase = "copy" /\ Head(r.todo) \in Parts
    BY <1>0, <1>5 DEF Copy, Busy, Serving
  <2>2. CASE there
    <3> DEFINE c == <<Restrict(parts, DOMAIN parts \ {Task(w)}), images>>
    <3>1. PICK g : g = [r EXCEPT !.copy = c, !.phase = "remove"]
      OBVIOUS
    <3>2. request' = [request EXCEPT ![w] = g]
      BY <1>5, <2>2, <3>1 DEF Copy
    <3>3. DOMAIN c[1] \subseteq Parts /\ c[2] \subseteq Photos
      BY DEF FileTypes, Restrict
    <3> HIDE DEF c
    <3>4. g.op = r.op /\ g.todo = r.todo /\ g.phase = "remove" /\ g.copy = c
          /\ DOMAIN g = {"op", "todo", "phase", "content", "copy"}
      BY <1>2, <2>1, <3>1
    <3>5. Serving(g)
      BY <1>2, <2>1, <3>3, <3>4 DEF Serving, Steps
    <3> QED BY <1>1, <1>5, <3>2, <3>5 DEF Copy, FileTypes
  <2>3. CASE ~there
    <3>1. request' = [request EXCEPT ![w] = Idle]
      BY <1>5, <2>3 DEF Copy
    <3> QED BY <1>1, <1>5, <3>1 DEF Copy, FileTypes
  <2> QED BY <2>2, <2>3
<1>6. CASE Remove(w)
  <2>1. r # Idle /\ r.phase = "remove" /\ Head(r.todo) \in Parts
        /\ DOMAIN r.copy[1] \subseteq Parts /\ r.copy[2] \subseteq Photos
    BY <1>0, <1>6 DEF Remove, Busy, Serving
  <2>2. there' = FALSE /\ DOMAIN parts' = {} /\ images' = {} /\ used' = used /\ named' = named
    BY <1>6 DEF Remove
  <2>3. CASE there
    <3>1. PICK g : g = [r EXCEPT !.phase = "rename"]
      OBVIOUS
    <3>2. request' = [request EXCEPT ![w] = g]
      BY <1>6, <2>3, <3>1 DEF Remove
    <3>4. g.op = r.op /\ g.todo = r.todo /\ g.phase = "rename" /\ g.copy = r.copy
          /\ DOMAIN g = {"op", "todo", "phase", "content", "copy"}
      BY <1>2, <2>1, <3>1
    <3>5. Serving(g)
      BY <1>2, <2>1, <3>4 DEF Serving, Steps
    <3> QED BY <1>1, <2>2, <3>2, <3>5 DEF FileTypes
  <2>4. CASE ~there
    <3>1. request' = [request EXCEPT ![w] = Idle]
      BY <1>6, <2>4 DEF Remove
    <3> QED BY <1>1, <2>2, <3>1 DEF FileTypes
  <2> QED BY <2>3, <2>4
<1>7. CASE Rename(w)
  <2>1. r # Idle /\ r.phase = "rename" /\ Head(r.todo) \in Parts
        /\ DOMAIN r.copy[1] \subseteq Parts /\ r.copy[2] \subseteq Photos
    BY <1>0, <1>7 DEF Rename, Busy, Serving
  <2>2. PICK g : g = [r EXCEPT !.phase = "append"]
    OBVIOUS
  <2>3. request' = [request EXCEPT ![w] = g]
    BY <1>7, <2>2 DEF Rename, FileTypes
  <2>4. g.op = r.op /\ g.todo = r.todo /\ g.phase = "append"
            /\ DOMAIN g = {"op", "todo", "phase", "content", "copy"}
    BY <1>2, <2>1, <2>2
  <2>5. Serving(g)
    BY <1>2, <2>1, <2>4 DEF Serving, Steps
  <2>6. there' = TRUE /\ DOMAIN parts' \subseteq Parts /\ images' \subseteq Photos /\ used' = used /\ named' = named
    BY <1>7, <2>1 DEF Rename
  <2> QED BY <1>1, <2>3, <2>5, <2>6 DEF FileTypes
<1>8. ASSUME request' = [request EXCEPT ![w] = Following(@)], r # Idle,
             there' \in BOOLEAN, DOMAIN parts' \subseteq Parts, images' \subseteq Photos,
                 used' = used /\ named' = named
      PROVE  FileTypes'
  <2>1. PICK g : g = Following(r)
    OBVIOUS
  <2>2. g = Idle \/ Serving(g)
    BY <1>0, <1>8, <2>1, FollowingServes
  <2>3. request' = [request EXCEPT ![w] = g]
    BY <1>8, <2>1
  <2> QED BY <1>1, <1>8, <2>2, <2>3 DEF FileTypes
<1>9. CASE AppendPart(w)
  <2>1. r # Idle /\ Head(r.todo) \in Parts
    BY <1>0, <1>9 DEF AppendPart, Busy, Serving
  <2>2. there' = TRUE /\ DOMAIN parts' = DOMAIN parts \cup {Head(r.todo)} /\ images' = images
            /\ used' = used /\ named' = named
    BY <1>9 DEF AppendPart, Task
  <2>3. request' = [request EXCEPT ![w] = Following(@)]
    BY <1>9 DEF AppendPart
  <2> QED BY <1>8, <2>1, <2>2, <2>3 DEF FileTypes
<1>10. CASE AddImage(w)
  <2>1. r # Idle /\ Head(r.todo) = "images"
    BY <1>10 DEF AddImage, Busy, Task
  <2>2. r.op.photo \in Photos
    BY <1>2, <2>1, OpFields DEF Sorted
  <2>3. there' = TRUE /\ parts' = parts /\ images' = images \cup {r.op.photo} /\ used' = used /\ named' = named
    BY <1>10 DEF AddImage
  <2>4. request' = [request EXCEPT ![w] = Following(@)]
    BY <1>10 DEF AddImage
  <2> QED BY <1>8, <2>1, <2>2, <2>3, <2>4 DEF FileTypes
<1>11. CASE Purge(w)
  <2>1. r # Idle /\ there' = there /\ used' = used /\ named' = named
    BY <1>11 DEF Purge, Busy
  <2>2. CASE request' = [request EXCEPT ![w] = Following(@)]
             /\ parts' = [parts EXCEPT !["assets"] = @ \ {r.op.photo}]
             /\ images' = images \ {r.op.photo}
    <3>1. DOMAIN parts' = DOMAIN parts
      BY <2>2
    <3> QED BY <1>8, <2>1, <2>2, <3>1 DEF FileTypes
  <2>3. CASE request' = [request EXCEPT ![w] = Idle] /\ UNCHANGED <<parts, images>>
    BY <1>1, <2>1, <2>3 DEF FileTypes
  <2> QED BY <1>11, <2>2, <2>3 DEF Purge
<1> QED BY <1>3, <1>4, <1>5, <1>6, <1>7, <1>9, <1>10, <1>11 DEF Step

LEMMA FileTypesStep == ASSUME FileTypes, [Next]_vars PROVE FileTypes'
<1>1. ASSUME UNCHANGED <<kind, request>>, used' \subseteq Photos \cup Comments, named' \subseteq Photos,
             there' \in BOOLEAN,
             DOMAIN parts' \subseteq Parts, images' \subseteq Photos
      PROVE  FileTypes'
  <2>1. ASSUME NEW v \in Workers PROVE request'[v] = Idle \/ Serving(request[v])'
    <3>1. PICK g : g = request[v]
      OBVIOUS
    <3>2. g = Idle \/ Serving(g)'
      BY <1>1, <3>1, ServingStays DEF FileTypes
    <3> QED BY <1>1, <3>1, <3>2 DEF Serving
  <2> QED BY <1>1, <2>1 DEF FileTypes
<1>2. CASE CreateCook \/ CreateRecipe
  <2>1. DOMAIN parts' = PartsOf(kind)
    BY <1>2 DEF CreateCook, CreateRecipe, WriteNew
  <2> QED BY <1>1, <1>2, <2>1, NamesOfParts DEF CreateCook, CreateRecipe, WriteNew, FileTypes
<1>3. ASSUME NEW p \in Photos, NEW cover \in SUBSET Photos, Import({p}, cover) PROVE FileTypes'
  <2>1. DOMAIN parts' = PartsOf(kind)
    BY <1>3 DEF Import
  <2> QED BY <1>1, <1>3, <2>1, NamesOfParts DEF Import, FileTypes
<1>4. CASE Delete
  <2>1. DOMAIN parts' = {}
    BY <1>4 DEF Delete
  <2> QED BY <1>1, <1>4, <2>1 DEF Delete, FileTypes
<1>5. CASE UNCHANGED vars
  BY <1>1, <1>5 DEF vars, FileTypes
<1> QED BY <1>2, <1>3, <1>4, <1>5, FileTypesWorker DEF Next

LEMMA FileTypesHold == FileTypes => TypeOK
<1>1. Idle.phase \in Steps
  BY DEF Idle, Steps
<1> QED BY <1>1 DEF FileTypes, Serving, Steps, TypeOK
====
