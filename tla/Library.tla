------------------------------- MODULE Library -------------------------------
(***************************************************************************)
(* What a user keeps in the workbench -- conversations, prompts, memories, *)
(* tasks, projects, personas, plugins, voices, assets -- and the sidebar   *)
(* and the composer's voice menu, which list it. The handlers of           *)
(* chat/workbench-v1.controller.ts, workbench-catalog, workbench-features  *)
(* and voices, the older ones of chat.controller.ts on the same tables,    *)
(* and usage/workspace.controller.ts; the tabs of app/(chat)/layout.tsx    *)
(* and the users page of the dashboard, each with its own copy of a list,  *)
(* which changes something, waits and loads the list again. Titles and     *)
(* contents are left out; a row is its id and the one flag its list shows. *)
(***************************************************************************)
EXTENDS Calls

VARIABLES
  rows,      \* list -> the rows of its table
  archived,  \* conversations that are archived
  token,     \* conversation -> the tokens on it: at most one
  links,     \* share links handed out: <<conversation, token>>
  shown,     \* list -> what the sidebar shows of it
  tools,     \* enabledPlugins of the page's store, sent with every question
  persona,   \* activePersona of the page's store
  astray,    \* history: a reload failed, two things were under way in the sidebar at
             \* once, or the rows were changed from somewhere else
  together   \* history: conversations shared twice at once

tables      == <<rows, archived, token>>
sidebar     == <<shown, tools, persona>>
libraryVars == <<tables, links, sidebar, astray, together>>

Sidelists == {"chats", "projects", "prompts", "memories", "personas", "features",
              "voices", "users"}
Lists     == Sidelists \cup {"tasks", "assets", "messages"}
Features  == {"plugin", "skill", "agent"}  \* one of each kind in the catalogue

Of(list, id)        == {r \in rows[list] : r[1] = id}
Has(list, id)       == Of(list, id) # {}
Inserted(list, id)  == [rows EXCEPT ![list] = @ \cup {<<id, FALSE>>}]
\* What is said in a conversation goes with it.
Messages(chat)      == {m \in rows["messages"] : m[2] = chat}
Deleted(list, id)   == [rows EXCEPT ![list] = @ \ Of(list, id),
                                    !["messages"] = IF list = "chats" THEN @ \ Messages(id) ELSE @]
Flag(set, id, flag) == {r \in set : r[1] # id} \cup {<<id, flag>> : r \in {s \in set : s[1] = id}}
On(set)             == {r[1] : r \in {s \in set : s[2]}}

\* What the handlers list of a table: no archived conversation, no agent among the plugins.
Listed(list) == {r \in rows[list] : /\ list = "chats" => r[1] \notin archived
                                    /\ list = "features" => r[1] # "agent"}

Sidebar(c) == call[c].does \in {"load", "create", "remove", "pin", "activate", "toggle", "user"}
Busy       == \E c \in Calls : UnderWay(c) /\ Sidebar(c)

LibraryInit ==
  /\ rows = [l \in Lists |-> IF l = "features" THEN Features \X {TRUE}
                             ELSE IF l = "messages" THEN {} ELSE {<<Seed, l = "users">>}]
  /\ archived = {} /\ token = [i \in Ids |-> {}] /\ links = {}
  /\ shown = [l \in Sidelists |-> {}] /\ tools = {} /\ persona = {}
  /\ astray = FALSE /\ together = {}

-----------------------------------------------------------------------------
(* The sidebar. *)

\* A click, with what the button knew when it was drawn.
Click(c, what, where, row, got) ==
  /\ Makes(c, what, where, row, got)
  /\ astray' = (astray \/ Busy)
  /\ UNCHANGED <<tables, links, sidebar, together>>

\* A tab opens: its list is loaded.
Load(c, list) == Click(c, "load", "list", list, {})

Create(c, list) == Click(c, "create", "insert", list, {})
Creating(list)  == \E d \in Calls : UnderWay(d) /\ Does(d, "create") /\ call[d].row = list

\* Two buttons are off until their answer comes, two are not.
NewConversation(c) == ~Creating("chats") /\ Create(c, "chats")
NewPersona(c)      == ~Creating("personas") /\ Create(c, "personas")
NewProject(c)      == Create(c, "projects")
Remember(c)        == Create(c, "memories")

Remove(c, list) == \E r \in shown[list] : Click(c, "remove", "delete", list, {r[1]})

RemoveConversation(c) == Remove(c, "chats")
RemovePrompt(c)       == Remove(c, "prompts")
Forget(c)             == Remove(c, "memories")

Pin(c)      == \E r \in shown["chats"] : Click(c, "pin", "update", "chats", {<<r[1], ~r[2]>>})
Activate(c) == \E r \in shown["personas"] :
                 Click(c, "activate", "update", "personas", {<<r[1], ~r[2]>>})

\* What it will show is worked out from the list on the page at the click.
Toggle(c) ==
  \E r \in shown["features"] :
    Click(c, "toggle", "update", r[1], Flag(shown["features"], r[1], ~r[2]))

\* The users page.  Its rows are the users but for the first administrator, who has no
\* buttons; a new role or password changes nothing that is listed.
InviteUser(c) == ~Creating("users") /\ Create(c, "users")
ToggleUser(c) == \E r \in shown["users"] : Click(c, "user", "update", "users", {<<r[1], ~r[2]>>})
ChangeUser(c) == shown["users"] # {} /\ Click(c, "user", "update", "users", {})
DeleteUser(c) == Remove(c, "users")

\* A list whose load fails stays as it is.
Lost(c) ==
  /\ Sidebar(c) /\ UnderWay(c)
  /\ Ends(c) /\ astray' = TRUE
  /\ UNCHANGED <<tables, links, sidebar, together>>

\* The handlers answer a load.
Serves(c, list, where) == At(c, where) /\ call[c].row = list
Answers(c, list) ==
  /\ Serves(c, list, "list")
  /\ GoesWith(c, "answer", Listed(list))
  /\ UNCHANGED libraryVars

ListConversations(c) == Answers(c, "chats")
ListProjects(c)      == Answers(c, "projects")
ListPrompts(c)       == Answers(c, "prompts")
ListMemories(c)      == Answers(c, "memories")
ListPersonas(c)      == Answers(c, "personas")
ListPlugins(c)       == Answers(c, "features")
ListVoices(c)        == Answers(c, "voices")
ListUsers(c)         == Answers(c, "users")

\* Studio asks for the capabilities once it has the personas.
ShowRows(c) ==
  /\ At(c, "answer")
  /\ shown' = [shown EXCEPT ![call[c].row] = call[c].got]
  /\ IF call[c].row = "personas" THEN Goes(c, "capabilities") ELSE Ends(c)
  /\ UNCHANGED <<tables, links, tools, persona, astray, together>>

Capabilities(c) ==
  /\ At(c, "capabilities")
  /\ GoesWith(c, "capable", {r \in rows["features"] : r[1] # "plugin"})
  /\ UNCHANGED libraryVars

ShowCapabilities(c) ==
  /\ At(c, "capable")
  /\ tools' = On(call[c].got)
  /\ Ends(c)
  /\ UNCHANGED <<tables, links, shown, persona, astray, together>>

-----------------------------------------------------------------------------
(* The handlers behind it.  An answer that is an error ends the click: the list is
   not loaded again. *)

Reloads(c) == Goes(c, "list")

Inserts(c, list) ==
  /\ Serves(c, list, "insert")
  /\ rows' = Inserted(list, c)
  /\ Reloads(c)
  /\ UNCHANGED <<archived, token, links, sidebar, astray, together>>

CreateConversation(c) == Inserts(c, "chats")
SaveMemory(c)         == Inserts(c, "memories")
CreatePersona(c)      == Inserts(c, "personas")

\* An empty description is written as NULL, which the column does not take.
CreateProject(c) ==
  /\ Serves(c, "projects", "insert")
  /\ Ends(c)
  /\ UNCHANGED libraryVars

Deletes(c, list) ==
  /\ Serves(c, list, "delete")
  /\ \E id \in call[c].got :
       \/ Has(list, id) /\ rows' = Deleted(list, id) /\ Reloads(c)
       \/ ~Has(list, id) /\ Ends(c) /\ UNCHANGED rows
  /\ UNCHANGED <<archived, token, links, sidebar, astray, together>>

DeleteConversation(c) == Deletes(c, "chats")
DeletePrompt(c)       == Deletes(c, "prompts")
DeleteMemory(c)       == Deletes(c, "memories")

PatchConversation(c) ==
  /\ Does(c, "pin") /\ At(c, "update")
  /\ \E r \in call[c].got :
       \/ Has("chats", r[1]) /\ Reloads(c) /\ rows' = [rows EXCEPT !["chats"] = Flag(@, r[1], r[2])]
       \/ ~Has("chats", r[1]) /\ Ends(c) /\ UNCHANGED rows
  /\ UNCHANGED <<archived, token, links, sidebar, astray, together>>

\* There is no route that makes a user; what the others change is not looked at first.
MissingRoute(c) ==
  /\ Serves(c, "users", "insert")
  /\ Ends(c)
  /\ UNCHANGED libraryVars

ModifyUser(c) ==
  /\ Does(c, "user") /\ At(c, "update")
  /\ rows' = [rows EXCEPT !["users"] =
                IF call[c].got = {} THEN @ ELSE UNION {Flag(@, r[1], r[2]) : r \in call[c].got}]
  /\ Reloads(c)
  /\ UNCHANGED <<archived, token, links, sidebar, astray, together>>

RemoveUser(c) ==
  /\ Serves(c, "users", "delete")
  /\ rows' = [rows EXCEPT !["users"] = {r \in @ : r[1] \notin call[c].got}]
  /\ Reloads(c)
  /\ UNCHANGED <<archived, token, links, sidebar, astray, together>>

\* One statement gives the persona its flag and takes it from every other.
PatchPersona(c) ==
  /\ Does(c, "activate") /\ At(c, "update")
  /\ \E r \in call[c].got :
       rows' = [rows EXCEPT !["personas"] = {<<p[1], p[1] = r[1] /\ r[2]>> : p \in @}]
  /\ Goes(c, "activated")
  /\ UNCHANGED <<archived, token, links, sidebar, astray, together>>

\* Back in the page: what is sent with a question follows the click.
Activated(c) ==
  /\ At(c, "activated")
  /\ persona' = On(call[c].got)
  /\ Reloads(c)
  /\ UNCHANGED <<tables, links, shown, tools, astray, together>>

\* The catalogue is everybody's: the update is not for this user alone.
PatchPlugin(c) ==
  /\ Does(c, "toggle") /\ At(c, "update")
  /\ rows' = [rows EXCEPT !["features"] =
                Flag(@, call[c].row, <<call[c].row, TRUE>> \in call[c].got)]
  /\ Goes(c, "toggled")
  /\ UNCHANGED <<archived, token, links, sidebar, astray, together>>

\* (slip: the switch moves before the answer comes, and keeps its list)
ToggledNot(c) ==
  /\ At(c, "toggled")
  /\ tools' = On(shown["features"])
  /\ Ends(c)
  /\ UNCHANGED <<tables, links, shown, persona, astray, together>>

Toggled(c) ==
  /\ At(c, "toggled")
  /\ shown' = [shown EXCEPT !["features"] = call[c].got]
  /\ tools' = On(call[c].got)
  /\ Ends(c)
  /\ UNCHANGED <<tables, links, persona, astray, together>>

-----------------------------------------------------------------------------
(* Sharing: the token is read, and written if there was none. *)

Share(c, chat) ==
  /\ chat \in {r[1] : r \in shown["chats"]}
  /\ together' = IF \E d \in Calls : UnderWay(d) /\ Does(d, "share") /\ call[d].row = chat
                 THEN together \cup {chat} ELSE together
  /\ Makes(c, "share", "token", chat, {})
  /\ UNCHANGED <<tables, links, sidebar, astray>>

\* (slip: every share has a token of its own)
ReadTokenNever(c) ==
  /\ At(c, "token") /\ Has("chats", call[c].row)
  /\ Goes(c, "mint") /\ UNCHANGED links
  /\ UNCHANGED <<tables, sidebar, astray, together>>

ReadToken(c) ==
  LET chat == call[c].row IN
  /\ At(c, "token")
  /\ IF Has("chats", chat) /\ token[chat] = {}
     THEN Goes(c, "mint") /\ UNCHANGED links
     ELSE Ends(c) /\ links' = links \cup ({chat} \X token[chat])
  /\ UNCHANGED <<tables, sidebar, astray, together>>

\* The update asks neither whose the conversation is nor whether it has a token now.
MintToken(c) ==
  LET chat == call[c].row IN
  /\ At(c, "mint")
  /\ token' = IF Has("chats", chat) THEN [token EXCEPT ![chat] = {c}] ELSE token
  /\ links' = links \cup {<<chat, c>>}
  /\ Ends(c)
  /\ UNCHANGED <<rows, archived, sidebar, astray, together>>

\* sharedConversation finds a conversation by its token.
Opens(link) == Has("chats", link[1]) /\ link[2] \in token[link[1]]

-----------------------------------------------------------------------------
(* Handlers that the sidebar does not call, the older ones on the same tables, and
   the workspace card. *)

Elsewhere(c) ==
  /\ Makes(c, "elsewhere", "ended", Seed, {})
  /\ astray' = TRUE
  /\ UNCHANGED <<token, links, sidebar, together>>

Adds(c, list) == Elsewhere(c) /\ rows' = Inserted(list, c) /\ UNCHANGED archived
Drops(c, list) ==
  /\ Elsewhere(c)
  /\ \E r \in rows[list] : rows' = Deleted(list, r[1])
  /\ UNCHANGED archived

CreatePrompt(c)     == Adds(c, "prompts")
CreateScheduled(c)  == Adds(c, "tasks")
DeleteScheduled(c)  == Drops(c, "tasks")
DropProject(c)      == Drops(c, "projects")
CreateChat(c)       == Adds(c, "chats")
DeleteChat(c)       == Drops(c, "chats")
AddProject(c)       == Adds(c, "projects")
DeleteProject(c)    == Drops(c, "projects")
AddTask(c)          == Adds(c, "tasks")
DeleteTask(c)       == Drops(c, "tasks")
AddLibrary(c)       == Adds(c, "prompts")
DeleteLibrary(c)    == Drops(c, "prompts")
RemoveVoice(c)      == Drops(c, "voices")

\* A voice of that name is replaced.  The menu that asks for it does not load its list again.
SubmitSample(c) ==
  /\ Makes(c, "voice", "clone", Seed, {})
  /\ UNCHANGED libraryVars

CloneVoice(c) ==
  /\ At(c, "clone")
  /\ rows' \in {Inserted("voices", c)} \cup (IF rows["voices"] = {} THEN {} ELSE {rows})
  /\ Ends(c) /\ astray' = TRUE
  /\ UNCHANGED <<archived, token, links, sidebar, together>>

\* Whose the conversation is, the first does not ask; it must exist.
AddMessage(c) ==
  /\ Elsewhere(c)
  /\ \E r \in rows["chats"] :
       rows' = [rows EXCEPT !["messages"] = @ \cup {<<c, r[1]>>}]
  /\ UNCHANGED archived

DeleteMessage(c) == Drops(c, "messages")

\* A task whose status is another is not run any more.
UpdateScheduled(c) ==
  /\ Elsewhere(c)
  /\ \E r \in rows["tasks"], off \in BOOLEAN :
       rows' = [rows EXCEPT !["tasks"] = Flag(@, r[1], off)]
  /\ UNCHANGED archived

\* The asset, its first version, a line of its history: three statements, of which the
\* last may fail, or the last two.
CreateCatalogAsset(c) ==
  /\ Makes(c, "asset", "version", Seed, {})
  /\ rows' = Inserted("assets", c)
  /\ UNCHANGED <<archived, token, links, sidebar, astray, together>>

InsertVersion(c) ==
  /\ At(c, "version")
  /\ rows' \in {rows, [rows EXCEPT !["assets"] = Flag(@, c, TRUE)]}
  /\ Ends(c)
  /\ UNCHANGED <<archived, token, links, sidebar, astray, together>>

\* Whatever it changes, a conversation is archived or not as the body says, and the
\* body of a rename says nothing.
UpdateChat(c) ==
  /\ Elsewhere(c)
  /\ \E r \in rows["chats"] : archived' \in {archived \cup {r[1]}, archived \ {r[1]}}
  /\ UNCHANGED rows

\* The settings are stored as they come: the personas are among them.
SetSettings(c) ==
  /\ Elsewhere(c)
  /\ rows' = [rows EXCEPT !["personas"] = {}]
  /\ UNCHANGED archived

\* The workspace is the oldest project, made when there is none.
GetWorkspace(c) ==
  /\ rows["projects"] = {}
  /\ Makes(c, "workspace", "default", Seed, {})
  /\ UNCHANGED libraryVars

InsertDefault(c) ==
  /\ At(c, "default")
  /\ rows' = Inserted("projects", c) /\ astray' = TRUE
  /\ Ends(c)
  /\ UNCHANGED <<archived, token, links, sidebar, together>>

\* It is deleted only where there is another; its conversations stay.
RemoveWorkspace(c) ==
  /\ Cardinality(rows["projects"]) > 1
  /\ \E r \in rows["projects"] : Makes(c, "workspace", "drop", Seed, {r[1]})
  /\ UNCHANGED libraryVars

DropWorkspace(c) ==
  /\ At(c, "drop")
  /\ \E id \in call[c].got : rows' = Deleted("projects", id)
  /\ Ends(c) /\ astray' = TRUE
  /\ UNCHANGED <<archived, token, links, sidebar, together>>

-----------------------------------------------------------------------------

LibraryNext ==
  \E c \in Calls :
    \/ \E list \in Sidelists : Load(c, list)
    \/ NewConversation(c) \/ NewPersona(c) \/ NewProject(c) \/ Remember(c)
    \/ RemoveConversation(c) \/ RemovePrompt(c) \/ Forget(c)
    \/ Pin(c) \/ Activate(c) \/ Toggle(c) \/ Lost(c)
    \/ InviteUser(c) \/ ToggleUser(c) \/ ChangeUser(c) \/ DeleteUser(c)
    \/ ListConversations(c) \/ ListProjects(c) \/ ListPrompts(c)
    \/ ListMemories(c) \/ ListPersonas(c) \/ ListPlugins(c) \/ ListVoices(c) \/ ListUsers(c)
    \/ ShowRows(c) \/ Capabilities(c) \/ ShowCapabilities(c)
    \/ CreateConversation(c) \/ SaveMemory(c) \/ CreatePersona(c) \/ CreateProject(c) \/ MissingRoute(c)
    \/ DeleteConversation(c) \/ DeletePrompt(c) \/ DeleteMemory(c)
    \/ ModifyUser(c) \/ RemoveUser(c)
    \/ PatchConversation(c) \/ PatchPersona(c) \/ Activated(c) \/ PatchPlugin(c) \/ Toggled(c)
    \/ \E chat \in Ids : Share(c, chat)
    \/ ReadToken(c) \/ MintToken(c)
    \/ CreatePrompt(c) \/ CreateScheduled(c) \/ DeleteScheduled(c) \/ DropProject(c)
    \/ CreateChat(c) \/ UpdateChat(c) \/ DeleteChat(c) \/ AddProject(c) \/ DeleteProject(c)
    \/ AddTask(c) \/ DeleteTask(c) \/ AddLibrary(c) \/ DeleteLibrary(c) \/ SetSettings(c)
    \/ SubmitSample(c) \/ CloneVoice(c) \/ RemoveVoice(c) \/ UpdateScheduled(c)
    \/ AddMessage(c) \/ DeleteMessage(c)
    \/ CreateCatalogAsset(c) \/ InsertVersion(c)
    \/ GetWorkspace(c) \/ InsertDefault(c) \/ RemoveWorkspace(c) \/ DropWorkspace(c)

-----------------------------------------------------------------------------
(* What must hold. *)

\* A share link handed out opens its conversation as long as that exists, unless two
\* shares of it were under way at once.
LinkOpens ==
  \A link \in links : Has("chats", link[1]) /\ link[1] \notin together => Opens(link)

\* A page that is left to finish one thing before the next, and that nobody changes
\* anything behind, shows the rows there are, and sends questions with a persona and
\* with tools that are still on.
SidebarFollows ==
  ~astray /\ ~Busy =>
    /\ \A list \in Sidelists : shown[list] \in {{}, Listed(list)}
    /\ persona \subseteq On(rows["personas"])
    /\ tools \subseteq On(rows["features"])
==============================================================================
