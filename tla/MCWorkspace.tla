---------------------------- MODULE MCWorkspace ----------------------------
(* Two requests, Topics, messages or paths for Workspace.                    *)
EXTENDS Workspace, TLC

MCSymmetry == Permutations(Things)

MCKinds == {"needs-you", "topics", "files", "inbox", "messages", "schedules", "feed", "composer", "roles", "inspector", "external"}
MCChanges == [kind \in MCKinds |-> CASE kind \in {"needs-you", "topics", "composer", "external"} -> 1 [] kind = "feed" -> 4 [] OTHER -> 2]
MCUnanswered == [kind \in MCKinds |-> IF kind \in {"inspector", "external"} THEN 1 ELSE 4]
MCActs == [kind \in MCKinds |-> CASE kind \in {"feed", "composer", "external"} -> 4 [] kind \in {"files", "roles", "inspector"} -> 3 [] OTHER -> 2]
=============================================================================
