--------------------------- MODULE MCMacroClient ---------------------------
(* An instance of MacroClient: one configuration beside the default, named    *)
(* after a comment and a line that names no file, and before one too many.    *)
EXTENDS MacroClient

ConfigLines == <<"comment", "missing", "name", "name">>

=============================================================================
