---------------------------- MODULE MCEditorLink ----------------------------
(* Two windows, one of which may hold two connections at a time.           *)
EXTENDS EditorLink, TLC

CONSTANTS w1, w2

MCWindows == {w1, w2}
MCPipe    == {<<w1, 1>>, <<w1, 2>>, <<w2, 1>>}

=============================================================================
