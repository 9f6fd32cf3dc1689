--------------------------- MODULE MCPluginLifecycle ---------------------------
(* Two callers, two streams and two closers over three instances.            *)
EXTENDS PluginLifecycle

CONSTANTS c1, c2, s1, s2, x1, x2

MCCallers == {c1, c2}
MCStreams == {s1, s2}
MCClosers == {x1, x2}
================================================================================
