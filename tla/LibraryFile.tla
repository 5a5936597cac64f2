------------------------------ MODULE LibraryFile ------------------------------
(***************************************************************************)
(* The archives behind the app's library (core/library.py, file_mgmt): a   *)
(* cook or a recipe is a zip file of JSON parts and of images.  A request  *)
(* of server/library.py rewrites one part after another: the part is read, *)
(* the archive is copied without it, the copy takes the archive's place    *)
(* and the part is appended.  Nothing locks the file.                      *)
(*                                                                         *)
(* Of the parts the model keeps the references to photos: the cover in     *)
(* metadata.json, those of the comments, those of a recipe's rows, and     *)
(* assets.json; and of the images, which photos have one.  A client may    *)
(* write a part, or a cover, as it likes: nothing checks what it names.    *)
(***************************************************************************)
EXTENDS Naturals, Sequences, FiniteSets, Functions

CONSTANTS
    Photos, Comments, \* ids: generate_uuid gives each once
    Workers           \* the threads that serve requests

VARIABLES
    kind,     \* the file's kind: "cook" or "recipe"
    there,    \* whether the file exists
    parts,    \* the JSON parts it has and what they refer to
    images,   \* the photos whose image and thumbnail are in it
    used,     \* the ids that have been given
    named,    \* ghost: photos a client has named that were not in the file
    request   \* request[w]: what worker w is doing

vars == <<kind, there, parts, images, used, named, request>>

Parts == {"metadata", "comments", "recipe", "assets"}
NoOp == [name |-> "none"]
Idle == [op |-> NoOp, todo |-> <<>>, phase |-> "read", content |-> {}, copy |-> <<{}, {}>>]
Empty(part) == IF part = "comments" THEN <<>> ELSE {}
PartsOf(k) == IF k = "cook" THEN Parts \ {"recipe"} ELSE Parts

TypeOK ==
    /\ kind \in {"cook", "recipe"} /\ there \in BOOLEAN
    /\ DOMAIN parts \subseteq Parts /\ images \subseteq Photos
    /\ used \subseteq Photos \cup Comments /\ named \subseteq Photos
    /\ \A w \in Workers : request[w].phase \in {"read", "copy", "remove", "rename", "append"}

Init ==
    /\ kind \in {"cook", "recipe"} /\ there = FALSE
    /\ parts = <<>> /\ images = {} /\ used = {} /\ named = {}
    /\ request = [w \in Workers |-> Idle]

-----------------------------------------------------------------------------
(* Files.                                                                  *)

\* A whole new file under a name of its own.
WriteNew(k) ==
    /\ kind = k /\ ~there /\ \E w \in Workers : request[w] = Idle
    /\ there' = TRUE
    /\ parts' = [part \in PartsOf(kind) |-> Empty(part)]
    /\ images' = {}
    /\ UNCHANGED <<kind, used, named, request>>

\* create_cookfile at the end of a cook; create_recipe for the editor; _import_archive
\* stores an archive as it is: here one with all its parts, whose cover may be any.
CreateCook == WriteNew("cook")
CreateRecipe == WriteNew("recipe")
Import(photos, cover) ==
    /\ ~there /\ \E w \in Workers : request[w] = Idle
    /\ there' = TRUE
    /\ parts' = [part \in PartsOf(kind) |->
                    CASE part = "assets" -> photos [] part = "metadata" -> cover [] OTHER -> Empty(part)]
    /\ images' = photos
    /\ used' = used \cup photos \cup cover /\ named' = named \cup (cover \ photos)
    /\ UNCHANGED <<kind, request>>

\* delete_cook, delete_recipe: the file is unlinked, whoever else is at work on it.
Delete ==
    /\ there /\ \E w \in Workers : request[w] = Idle
    /\ there' = FALSE /\ parts' = <<>> /\ images' = {}
    /\ UNCHANGED <<kind, used, named, request>>

-----------------------------------------------------------------------------
(* Requests: which parts they rewrite, in which order, and how.            *)

\* The routes of a cook, and those of a recipe.
CookOps ==
    [name : {"addPhoto"}, photo : Photos, comment : {"none"} \cup Comments,
     row : {FALSE}, cover : BOOLEAN]
    \cup [name : {"deletePhoto", "setCover", "patchCover"}, photo : Photos]
    \cup [name : {"clearCover", "retitle"}]
    \cup [name : {"addComment", "editComment", "deleteComment"}, comment : Comments]

\* PUT: a part with what the client sends.
Puts ==
    [name : {"put"}, part : {"metadata", "recipe"}, photos : SUBSET Photos]
    \cup [name : {"put"}, part : {"comments"}, photos : SUBSET Photos, comments : SUBSET Comments]

RecipeOps ==
    Puts \cup [name : {"addPhoto"}, photo : Photos, comment : {"none"} \cup Comments,
     row : BOOLEAN, cover : BOOLEAN]
    \cup [name : {"deletePhoto"}, photo : Photos]
    \cup [name : {"addComment", "deleteComment"}, comment : Comments]

Ops == IF kind = "cook" THEN CookOps ELSE RecipeOps

\* add_cook_photo refers to the photo in a comment, then in the cover;
\* add_recipe_photo in the cover, then in a comment or a row.
CookPhoto(op) ==
    (IF op.comment # "none" THEN <<"comments">> ELSE <<>>) \o (IF op.cover THEN <<"metadata">> ELSE <<>>)
RecipePhoto(op) ==
    (IF op.cover THEN <<"metadata">> ELSE <<>>)
        \o (IF op.comment # "none" THEN <<"comments">> ELSE IF op.row THEN <<"recipe">> ELSE <<>>)

\* What an operation rewrites; "images" adds the photo's files, "purge" takes them
\* and the entry in assets.json out in one replacement of the archive.
Plan(op) ==
    CASE op.name = "addPhoto" ->
           <<"assets", "images">> \o (IF kind = "cook" THEN CookPhoto(op) ELSE RecipePhoto(op))
      [] op.name = "deletePhoto" ->
           <<"purge", "metadata", "comments">> \o (IF kind = "recipe" THEN <<"recipe">> ELSE <<>>)
      [] op.name \in {"setCover", "patchCover", "clearCover", "retitle"} -> <<"metadata">>
      [] op.name = "put" -> <<op.part>>
      [] OTHER -> <<"comments">>

\* The errors a request ends with before it has changed anything.
Accepted(op) ==
    /\ there
    /\ op.name \in {"deletePhoto", "setCover"}
         => "assets" \in DOMAIN parts /\ op.photo \in parts["assets"]
    /\ op.name \in {"editComment", "deleteComment"}
         => "comments" \in DOMAIN parts /\ op.comment \in DOMAIN parts["comments"]
    /\ op.name = "addComment" => "comments" \in DOMAIN parts

\* Mutant: deleting a photo forgets the cover.
ForgetCover(op, old) ==
    IF op.name \in {"addPhoto", "setCover", "patchCover"} THEN {op.photo}
    ELSE IF op.name = "clearCover" THEN {} ELSE old

\* The cover after an operation.
Cover(op, old) ==
    IF op.name \in {"addPhoto", "setCover", "patchCover"} THEN {op.photo}
    ELSE IF op.name = "clearCover" THEN {}
    ELSE IF op.name = "deletePhoto" THEN old \ {op.photo} ELSE old

\* A new comment has no photos; a comment that is deleted takes its references along.
Commented(old, c) == [d \in DOMAIN old \cup {c} |-> IF d = c THEN {} ELSE old[d]]
Uncommented(old, c) == Restrict(old, DOMAIN old \ {c})

\* The comments, each with its photos, after an operation.
CommentsAfter(op, old) ==
    CASE op.name = "addPhoto" ->
           [c \in DOMAIN old |-> IF c = op.comment THEN old[c] \cup {op.photo} ELSE old[c]]
      [] op.name = "deletePhoto" -> [c \in DOMAIN old |-> old[c] \ {op.photo}]
      [] op.name = "addComment" -> Commented(old, op.comment)
      [] op.name = "editComment" -> old
      [] op.name = "deleteComment" -> Uncommented(old, op.comment)

\* The photos of a recipe's rows after an operation.
RowsAfter(op, old) ==
    IF op.name = "addPhoto" THEN old \cup {op.photo} ELSE old \ {op.photo}

\* What is written for what was read, or for what a PUT brought.
Change(op, part, old) ==
    IF op.name = "put" THEN old
    ELSE CASE part = "metadata" -> Cover(op, old)
           [] part = "assets" -> old \cup {op.photo}
           [] part = "recipe" -> RowsAfter(op, old)
           [] part = "comments" -> CommentsAfter(op, old)

\* What a PUT brings, and the photos and comments a client names.
Brought(op) == IF op.part = "comments" THEN [c \in op.comments |-> op.photos] ELSE op.photos
NamedPhotos(op) ==
    IF op.name = "put" THEN op.photos ELSE IF op.name = "patchCover" THEN {op.photo} ELSE {}
NamedComments(op) == IF op.name = "put" /\ op.part = "comments" THEN op.comments ELSE {}

NewIds(op) ==
    (IF op.name = "addPhoto" THEN {op.photo} ELSE {})
        \cup (IF op.name = "addComment" THEN {op.comment} ELSE {})

\* A PUT does not read the part it writes.
Opened(op) ==
    IF op.name = "put"
    THEN [Idle EXCEPT !.op = op, !.todo = Plan(op), !.phase = "copy", !.content = Brought(op)]
    ELSE [Idle EXCEPT !.op = op, !.todo = Plan(op)]

\* A request comes in and is not refused.
Begin(w, op) ==
    /\ request[w] = Idle /\ Accepted(op) /\ NewIds(op) \cap used = {}
    /\ used' = used \cup NewIds(op) \cup NamedPhotos(op) \cup NamedComments(op)
    /\ named' = named \cup (NamedPhotos(op) \ images)
    /\ request' = [request EXCEPT ![w] = Opened(op)]
    /\ UNCHANGED <<kind, there, parts, images>>

-----------------------------------------------------------------------------
(* The steps of a request.                                                 *)

Task(w) == Head(request[w].todo)
Busy(w, phase) == request[w] # Idle /\ request[w].phase = phase

\* The next task, or the answer.
Following(r) == IF Len(r.todo) = 1 THEN Idle
            ELSE [Idle EXCEPT !.op = r.op, !.todo = Tail(r.todo)]

\* _read_part: a part that is not there counts as empty.
ReadPart(w) ==
    /\ Busy(w, "read") /\ Task(w) \in Parts
    /\ request' = [request EXCEPT
         ![w].content = IF Task(w) \in DOMAIN parts THEN parts[Task(w)] ELSE Empty(Task(w)),
         ![w].phase = "copy"]
    /\ UNCHANGED <<kind, there, parts, images, used, named>>

\* update_json_file_data: a copy without the part; without the file, an error.
Copy(w) ==
    /\ Busy(w, "copy")
    /\ request' = [request EXCEPT ![w] =
         IF there
         THEN [@ EXCEPT !.copy = <<Restrict(parts, DOMAIN parts \ {Task(w)}), images>>, !.phase = "remove"]
         ELSE Idle]
    /\ UNCHANGED <<kind, there, parts, images, used, named>>

\* os.remove of the archive.
Remove(w) ==
    /\ Busy(w, "remove")
    /\ request' = [request EXCEPT ![w] = IF there THEN [@ EXCEPT !.phase = "rename"] ELSE Idle]
    /\ there' = FALSE /\ parts' = <<>> /\ images' = {}
    /\ UNCHANGED <<kind, used, named>>

\* os.rename of the copy.
Rename(w) ==
    /\ Busy(w, "rename")
    /\ there' = TRUE /\ parts' = request[w].copy[1] /\ images' = request[w].copy[2]
    /\ request' = [request EXCEPT ![w].phase = "append"]
    /\ UNCHANGED <<kind, used, named>>

\* The part is appended; opening a file that is gone creates it.
AppendPart(w) ==
    /\ Busy(w, "append")
    /\ there' = TRUE
    /\ parts' = [part \in DOMAIN parts \cup {Task(w)} |->
                    IF part = Task(w) THEN Change(request[w].op, part, request[w].content) ELSE parts[part]]
    /\ request' = [request EXCEPT ![w] = Following(@)]
    /\ UNCHANGED <<kind, images, used, named>>

\* add_image_asset: the image and its thumbnail are appended.
AddImage(w) ==
    /\ Busy(w, "read") /\ Task(w) = "images"
    /\ there' = TRUE
    /\ images' = images \cup {request[w].op.photo}
    /\ request' = [request EXCEPT ![w] = Following(@)]
    /\ UNCHANGED <<kind, parts, used, named>>

\* remove_image_asset: the archive without the photo, in one os.replace.
Purge(w) ==
    /\ Busy(w, "read") /\ Task(w) = "purge"
    /\ IF there /\ "assets" \in DOMAIN parts /\ request[w].op.photo \in parts["assets"]
       THEN /\ parts' = [parts EXCEPT !["assets"] = @ \ {request[w].op.photo}]
            /\ images' = images \ {request[w].op.photo}
            /\ request' = [request EXCEPT ![w] = Following(@)]
       ELSE request' = [request EXCEPT ![w] = Idle] /\ UNCHANGED <<parts, images>>
    /\ UNCHANGED <<kind, there, used, named>>

Step(w) ==
    \/ \E op \in Ops : Begin(w, op)
    \/ ReadPart(w) \/ Copy(w) \/ Remove(w) \/ Rename(w) \/ AppendPart(w)
    \/ AddImage(w) \/ Purge(w)

Next ==
    \/ CreateCook \/ CreateRecipe \/ Delete
    \/ \E p \in Photos, cover \in SUBSET Photos : Import({p}, cover)
    \/ \E w \in Workers : Step(w)

Spec == Init /\ [][Next]_vars

-----------------------------------------------------------------------------
(* Properties.                                                             *)

References(part) ==
    IF part = "comments" THEN UNION {parts[part][c] : c \in DOMAIN parts[part]} ELSE parts[part]

\* Between requests, of one worker, the file is whole: no part got lost on the way,
\* the registered photos are those whose images are in the file, and every photo the
\* cover, a comment or a row refers to is registered, unless a client has named it
\* when it was not.
FileIsWhole ==
    there /\ (\A w \in Workers : request[w] = Idle)
        => /\ DOMAIN parts = PartsOf(kind)
           /\ \A part \in DOMAIN parts : References(part) \subseteq parts["assets"] \cup named
           /\ parts["assets"] = images

=============================================================================
