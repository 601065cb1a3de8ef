------------------------------ MODULE Handlers ------------------------------
(***************************************************************************)
(* The handlers that change several rows, as programs of statements for     *)
(* Database.  A row is a pair: its key, and the rest of it.  A handler has   *)
(* the scope of its rows, its program, and a kind: a unit of work in        *)
(* db.transaction() ("tx"), under the provisioning locks ("serial"), under  *)
(* the advisory lock alone ("boot"), a reader ("read"), or bare statements  *)
(* with a commit() at the end ("bare").                                     *)
(***************************************************************************)
EXTENDS Naturals, Sequences

Keys(R) == {row[1] : row \in R}
Plain(K) == {<<k, 0>> : k \in K}
AllKeys == {"a", "b"}

Delete(K) == [op |-> "delete", keys |-> K, rows |-> {}]
Insert(R) == [op |-> "insert", keys |-> Keys(R), rows |-> R]
OrIgnore(R) == [op |-> "or ignore", keys |-> Keys(R), rows |-> R]
IfNotExists(R) == [op |-> "if not exists", keys |-> Keys(R), rows |-> R]
Select(K) == [op |-> "select", keys |-> K, rows |-> {}]
\* An INSERT or ALTER that the handler leaves out when its SELECT found the row.
Unless(R) == [op |-> "unless", keys |-> Keys(R), rows |-> R]

Handler(s, kind, p) == [scope |-> s, kind |-> kind, program |-> p]

\* DELETE all the rows, then one INSERT for each new one.
Replacing(keys) ==
    <<Delete(AllKeys)>> \o [i \in DOMAIN keys |-> Insert(Plain({keys[i]}))]

SetGroupPermissions(keys) == Handler("grants", "tx", Replacing(keys))
GetMatrix == Handler("grants", "read", <<Select(AllKeys)>>)

\* One DELETE and one INSERT for each changed key.
Upserts(rows) ==
    [i \in 1..2 * Len(rows) |->
        IF i % 2 = 1 THEN Delete({rows[(i + 1) \div 2][1]}) ELSE Insert({rows[i \div 2]})]

SetDefaults(rows) == Handler("defaults", "tx", Upserts(rows))
GetDefaults == Handler("defaults", "read", <<Select(AllKeys)>>)
WriteAppearance == Handler("settings", "tx", Upserts(<<<<"a", 1>>, <<"b", 1>>>>))

\* A document and its chunks, under fresh ids: by URL in a transaction, by upload bare.
Document(d) == <<Insert(Plain({d[1]})), Insert(Plain({d[2]}))>>
Touch == <<Select({})>>
AddDocumentUrl(d) == Handler("page", "tx", Document(d))
AddCollectionDocumentUrl(d) == Handler("page", "tx", Document(d) \o Touch)
UploadDocument(d) == Handler("upload", "bare", Document(d))
UploadCollectionDocument(d) == Handler("upload", "bare", Document(d) \o Touch)

\* One DELETE, which cascades.
DeleteDocument(d) == Handler("page", "bare", <<Delete({d[1], d[2]})>>)
DeletePreset == Handler("preset", "bare", <<Delete({"a"})>>)
DeleteTag == Handler("tags", "bare", <<Delete({"a"})>>)
DeleteShare == Handler("share", "bare", <<Delete({"a"})>>)

\* rename_tag of "a" to "b", for one conversation that carries "a".
RenameTag == Handler("tags", "tx", <<OrIgnore(Plain({"b"})), Delete({"a"})>>)

SetTags(keys) == Handler("tags", "bare", Replacing(keys))
SetMembers(keys) == Handler("members", "bare", Touch \o Replacing(keys))
SetModelAccess(keys) == Handler("model", "bare", Touch \o Replacing(keys))
SetConversationCollections(keys) == Handler("attached", "bare", Touch \o Replacing(keys))
UpdatePreset(keys) == Handler("preset", "bare", Touch \o Replacing(keys))
DeleteFolder == Handler("folder", "bare", Touch \o <<Delete({"a"}), Delete({"b"})>>)
CreateShare == Handler("share", "bare", <<Select({"a"}), Unless(Plain({"a"}))>>)

\* open_db: the tables, a missing column, the indexes.
OpenDb ==
    Handler("schema", "boot",
        <<IfNotExists(Plain({"table"})), Select({"column"}),
          Unless(Plain({"column"})), IfNotExists(Plain({"index"}))>>)

\* setup_endpoint: count the accounts, make the first one.
Setup == Handler("account", "serial", <<Select({"a"}), Unless(Plain({"a"}))>>)

Scopes == {"grants", "defaults", "settings", "page", "upload", "tags", "attached",
           "members", "model", "preset", "folder", "share", "schema", "account"}

\* What is there before: the replaced sets hold one row, new objects none.
Before(s) ==
    CASE s \in {"upload", "share", "schema", "account"} -> {}
      [] s = "folder" -> Plain(AllKeys)
      [] s = "page" -> Plain({"c", "d"})
      [] OTHER -> Plain({"a"})
=============================================================================
