----------------------------- MODULE ExitCodes ------------------------------
(***************************************************************************)
(* errorToExitCode, src/internal/pkg/cmd/command_internal.go: the exit     *)
(* code of a command's error.  An error is the set of errors that          *)
(* errors.Is and errors.As find in its chain; the first match decides.     *)
(***************************************************************************)
EXTENDS Integers, Sequences

RunResultHelp == -18511   \* github.com/hashicorp/cli

\* "request" is an API error below 500, "server" one from 500 up.
ExitCodeOf == <<
    <<"help", RunResultHelp>>, <<"usage", 1>>, <<"underlying", 6>>,
    <<"not found", 2>>, <<"unauthorized", 3>>, <<"net", 4>>,
    <<"server", 5>>, <<"request", 1>>, <<"exit code", 1>>, <<"canceled", 130>> >>

\* The code of an error that carries no code of its own.
ErrorToExitCode(err) ==
    LET known == {i \in DOMAIN ExitCodeOf : ExitCodeOf[i][1] \in err}
    IN  IF known = {} THEN 1
        ELSE ExitCodeOf[CHOOSE i \in known : \A j \in known : i <= j][2]
=============================================================================
