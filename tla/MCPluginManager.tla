--------------------------- MODULE MCPluginManager ---------------------------
\* Small instances of PluginManager.
EXTENDS PluginManager

\* "plc1/" and, nested in it, "plc1/db1/"; one name reaches both.
MCPrefixes == {<<1>>, <<1, 2>>}
MCNames == {<<1, 2>>}
MCCtxs == 1 .. MaxOwner
\* Every library file reports the same plugin id.
MCSameId == [p \in Paths |-> CHOOSE i \in Ids : TRUE]
\* The id is the file's name.
MCOwnId == [p \in Paths |-> p]
=============================================================================
