------------------------------ MODULE MCCompose ------------------------------
(* One or two services of at most two entries each, and other blocks with  *)
(* an image line before and after them.                                    *)
EXTENDS Compose

CONSTANT none

Entries == {[kind |-> "image", image |-> "near-outlayer", pinned |-> TRUE],
            [kind |-> "image", image |-> "postgres", pinned |-> FALSE],
            [kind |-> "nested", name |-> "environment"],
            [kind |-> "scalar"], [kind |-> "blank"]}
Called(name) == [name : {name},
                 entries : {<<>>} \cup {<<e>> : e \in Entries} \cup (Entries \X Entries)]

Containers(services) == [kind |-> "services", services |-> services]
Extension == [kind |-> "other", name |-> "x-common", image |-> "template"]

Services == {<<Containers(<<s>>)>> : s \in Called("worker")}
            \cup {<<Containers(<<s, t>>)>> : s \in Called("worker"), t \in Called("proxy")}
FilesDef == {before \o s \o after : before \in {<<>>, <<Extension>>}, s \in Services,
                                    after \in {<<>>, <<Extension>>}}
=============================================================================
