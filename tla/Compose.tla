------------------------------- MODULE Compose -------------------------------
(***************************************************************************)
(* The table of images on a detail page: image_rows of server/src/page.rs, *)
(* which reads a docker-compose file line by line without a YAML parser.   *)
(*                                                                         *)
(* A line is [indent, kind, text]: "blank" (or a comment), "services" (the *)
(* key of that name), "key" (a mapping key without a value), "image" (with *)
(* the digest's presence in the text), "other" (anything else).  Files are *)
(* given as what they mean -- blocks, services, entries -- and laid out in *)
(* lines the way compose files are; the table is compared with the meaning.*)
(***************************************************************************)
EXTENDS Naturals, Sequences, SequencesExt

CONSTANTS
    Files,       \* sequences of top-level blocks
    Names,       \* the keys: of services, of mappings and of other blocks
    Images,      \* what an image line names
    Outlayer,    \* the images under outlayer/near-outlayer
    Versioned,   \* the compose name ends in a release version
    None

(* What a file means: services are made of entries, files of blocks, of    *)
(* which some are services and others have an image that is no container's.*)
Entry   == [kind : {"image"}, image : Images, pinned : BOOLEAN]
           \cup [kind : {"nested"}, name : Names]
           \cup [kind : {"scalar", "blank"}]
Service == [name : Names, entries : Seq(Entry)]
Block   == [kind : {"services"}, services : Seq(Service)]
           \cup [kind : {"other"}, name : Names, image : Images]

ASSUME ComposeAssumption ==
    /\ Files \subseteq Seq(Block)
    /\ None \notin Names /\ "services" # None
    /\ Versioned \in BOOLEAN

VARIABLES
    file, lines,      \* the compose file, and its lines
    line,             \* the line to be read next
    in_services, services_indent, current_service, rows

vars == <<file, lines, line, in_services, services_indent, current_service, rows>>

-----------------------------------------------------------------------------
(* Layout.  A block is [kind |-> "services", services |-> ...], or another *)
(* top-level key with an image line below it that is no container's.  An   *)
(* entry of a service is an image, a nested mapping, a scalar or a blank.  *)
Line(indent, kind, text) == [indent |-> indent, kind |-> kind, text |-> text]

EntryLines(e) ==
    CASE e.kind = "image"  -> <<Line(4, "image", [image |-> e.image, pinned |-> e.pinned])>>
      [] e.kind = "nested" -> <<Line(4, "key", e.name), Line(6, "other", None)>>
      [] e.kind = "scalar" -> <<Line(4, "other", None)>>
      [] e.kind = "blank"  -> <<Line(0, "blank", None)>>

Below(s, Of(_)) == FlattenSeq([i \in DOMAIN s |-> Of(s[i])])

ServiceLines(s) == <<Line(2, "key", s.name)>> \o Below(s.entries, EntryLines)

BlockLines(b) ==
    IF b.kind = "services"
    THEN <<Line(0, "services", "services")>> \o Below(b.services, ServiceLines)
    ELSE <<Line(0, "key", b.name), Line(2, "image", [image |-> b.image, pinned |-> TRUE])>>

Layout(f) == Below(f, BlockLines)

(* Meaning: the pinned images of the services, in order; an image comes    *)
(* after a nested mapping of its service or not.                           *)
PinnedIn(s) ==
    FlattenSeq([i \in DOMAIN s.entries |->
        IF s.entries[i].kind = "image" /\ s.entries[i].pinned
        THEN <<[container |-> s.name, image |-> s.entries[i].image,
                after_nested |-> \E j \in 1 .. i : s.entries[j].kind = "nested"]>>
        ELSE <<>>])

PinnedOf(b) == IF b.kind = "services" THEN Below(b.services, PinnedIn) ELSE <<>>

Meaning == Below(file, PinnedOf)

-----------------------------------------------------------------------------
Current == lines[line]

Read == /\ line <= Len(lines)
        /\ line' = line + 1
        /\ UNCHANGED <<file, lines>>

(* A blank or a comment, or a line of another block. *)
Skip ==
    /\ Read
    /\ Current.kind = "blank" \/ (~in_services /\ Current.kind # "services")
    /\ UNCHANGED <<in_services, services_indent, current_service, rows>>

EnterServices ==
    /\ Read
    /\ ~in_services /\ Current.kind = "services"
    /\ in_services' = TRUE
    /\ services_indent' = Current.indent
    /\ UNCHANGED <<current_service, rows>>

(* Mutant: the end of the block is not noticed. *)
OutdentedNever == FALSE

Outdented == Current.indent <= services_indent /\ Current.kind # "services"

LeaveServices ==
    /\ Read
    /\ in_services /\ Current.kind # "blank" /\ Outdented
    /\ in_services' = FALSE
    /\ current_service' = None
    /\ UNCHANGED <<services_indent, rows>>

Inside == in_services /\ Current.kind # "blank" /\ ~Outdented

(* Mutant: the first key is kept. *)
FirstKey ==
    /\ Read
    /\ Inside /\ Current.kind \in {"key", "services"}
    /\ current_service' = IF current_service = None THEN Current.text ELSE current_service
    /\ UNCHANGED <<in_services, services_indent, rows>>

(* service_key: any mapping key without a value. *)
Key ==
    /\ Read
    /\ Inside /\ Current.kind \in {"key", "services"}
    /\ current_service' = Current.text
    /\ UNCHANGED <<in_services, services_indent, rows>>

(* image_row: a row for an image pinned by digest. *)
ImageRow(image, service) ==
    [container |-> IF service = None THEN image ELSE service,
     image |-> image,
     release |-> image \in Outlayer /\ Versioned]

Image ==
    /\ Read
    /\ Inside /\ Current.kind = "image"
    /\ rows' = IF Current.text.pinned
               THEN Append(rows, ImageRow(Current.text.image, current_service))
               ELSE rows
    /\ UNCHANGED <<in_services, services_indent, current_service>>

Other ==
    /\ Read
    /\ Inside /\ Current.kind = "other"
    /\ UNCHANGED <<in_services, services_indent, current_service, rows>>

Init ==
    /\ file \in Files
    /\ lines = Layout(file)
    /\ line = 1
    /\ in_services = FALSE /\ services_indent = 0
    /\ current_service = None
    /\ rows = <<>>

Next == \/ Skip \/ EnterServices \/ LeaveServices
        \/ Key \/ Image \/ Other

Spec == Init /\ [][Next]_vars

Done == line > Len(lines)

-----------------------------------------------------------------------------
(* The table has one row per pinned image of the services, in their order, *)
(* and none for an image that is no container's (page.rs:426-428).         *)
EveryImageOnce ==
    Done => [i \in DOMAIN rows |-> rows[i].image]
            = [i \in DOMAIN Meaning |-> Meaning[i].image]

(* Where a service's image comes before its nested mappings, it is listed  *)
(* under its service, whatever came before in the file.                    *)
ImageFirstIsNamed ==
    Done => \A i \in DOMAIN Meaning \cap DOMAIN rows :
                ~Meaning[i].after_nested => rows[i].container = Meaning[i].container

(* "docker-compose service name (the key under `services:`)" (page.rs:274),*)
(* which the code does not keep: an image after a nested mapping, such as  *)
(* environment:, is listed under the name of the mapping.                  *)
ContainerIsService ==
    Done => \A i \in DOMAIN Meaning \cap DOMAIN rows :
                rows[i].container = Meaning[i].container
=============================================================================
