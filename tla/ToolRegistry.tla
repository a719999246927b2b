---------------------------- MODULE ToolRegistry ----------------------------
(***************************************************************************)
(* The tool registry (backend/core/tool_registry/registry.py) behind the   *)
(* permission manager (backend/core/permission_manager/permissions.py):    *)
(* what a call of a tool must pass, and what is counted of it.             *)
(*                                                                         *)
(* The call of a caller is in flight from the moment it has passed the     *)
(* gates; the tool suspends it, and in the meantime an administrator may   *)
(* change any gate.  One role exists, soldier, as in                       *)
(* backend/soldiers/bootstrap.py; the scope "tool:<name>" is written as    *)
(* the name of the tool.  The container gives the registry no rate limiter *)
(* (backend/core/container.py:36); the limiter is the module RateLimiter.  *)
(***************************************************************************)
EXTENDS Naturals

CONSTANTS KeySets,  \* the keys that may be configured, as sets of tools
          Caller,   \* those that may have a call in flight
          Agent,    \* the agent ids, the principals
          Builtin   \* tools that are always registered

VARIABLES tools,    \* ToolRegistry._tools
          allow,    \* ToolRegistry._allow, NoList where there is no entry
          scopes,   \* what the role soldier is granted
          holders,  \* the principals that are assigned the role
          call,     \* history: the tool a caller waits for, or NoTool
          begun,    \* history: calls that passed the gates
          audit,    \* decisions of the permission manager, by outcome
          counted   \* the counter tool_invocations, by status

gates == <<tools, allow, scopes, holders>>
books == <<begun, audit, counted>>
registryVars == <<tools, allow, scopes, holders, call, begun, audit, counted>>

Tool == Builtin \cup UNION KeySets
NoTool == "none"
NoList == {NoTool}
AnyTool == "tool:*"

RegistryTypeOK ==
    /\ tools \subseteq Tool
    /\ allow \in [Agent -> (SUBSET Tool) \cup {NoList}]
    /\ scopes \subseteq Tool \cup {AnyTool}
    /\ holders \subseteq Agent
    /\ call \in [Caller -> Tool \cup {NoTool}]
    /\ begun \in Nat
    /\ audit \in [{"allow", "deny"} -> Nat]
    /\ counted \in [{"ok", "error"} -> Nat]

\* register_provider_tools: the offline tools, and those with a key.
Registered(keys) == Builtin \cup keys

\* After start-up: the role is granted every tool and given to every soldier.
RegistryInit(lists) ==
    /\ tools \in {Registered(keys) : keys \in KeySets}
    /\ allow = lists
    /\ scopes = {AnyTool}
    /\ holders = Agent
    /\ call = [c \in Caller |-> NoTool]
    /\ begun = 0
    /\ audit = [d \in {"allow", "deny"} |-> 0]
    /\ counted = [s \in {"ok", "error"} |-> 0]

-----------------------------------------------------------------------------
(* Administration.                                                         *)

Allow(a, T) == /\ allow' = [allow EXCEPT ![a] = T]
               /\ UNCHANGED <<tools, scopes, holders, call, books>>

Grant(s) == /\ scopes' = scopes \cup {s}
            /\ UNCHANGED <<tools, allow, holders, call, books>>

Revoke(s) == /\ scopes' = scopes \ {s}
             /\ UNCHANGED <<tools, allow, holders, call, books>>

Assign(a) == /\ holders' = holders \cup {a}
             /\ UNCHANGED <<tools, allow, scopes, call, books>>

Unassign(a) == /\ holders' = holders \ {a}
               /\ UNCHANGED <<tools, allow, scopes, call, books>>

-----------------------------------------------------------------------------
(* invoke, up to the tool and from its answer on.                          *)

Listed(a, t) == allow[a] = NoList \/ t \in allow[a]

\* check: some scope of some role of the principal matches.
Matches(granted, t) == granted \in {AnyTool, t}
Permitted(a, t) == a \in holders /\ \E s \in scopes : Matches(s, t)

Decision(a, t) == IF Permitted(a, t) THEN "allow" ELSE "deny"

\* The call passes: the decision is written down and the tool begins.
PassGates(c, a, t) ==
    /\ call[c] = NoTool
    /\ t \in tools /\ Listed(a, t) /\ Permitted(a, t)
    /\ call' = [call EXCEPT ![c] = t]
    /\ begun' = begun + 1
    /\ audit' = [audit EXCEPT !["allow"] = @ + 1]
    /\ UNCHANGED <<gates, counted>>

\* The call raises at a gate: PermissionError, from the list before any
\* decision is made, or from the permission manager after writing it down.
Refuse(c, a, t) ==
    /\ call[c] = NoTool
    /\ ~ (Listed(a, t) /\ Permitted(a, t))
    /\ audit' = IF Listed(a, t) THEN [audit EXCEPT ![Decision(a, t)] = @ + 1]
                ELSE audit
    /\ UNCHANGED <<gates, call, begun, counted>>

\* The finally clause of invoke counts every call: a cancelled one is not an
\* Exception and keeps the status it began with.
Status(how) == IF how = "raised" THEN "error" ELSE "ok"

\* The count stands behind the call instead: a cancelled call is not counted.
FinishCountedLast(c, how) ==
    /\ call[c] # NoTool
    /\ call' = [call EXCEPT ![c] = NoTool]
    /\ counted' = IF how = "cancelled" THEN counted
                  ELSE [counted EXCEPT ![Status(how)] = @ + 1]
    /\ UNCHANGED <<gates, begun, audit>>

Finish(c, how) ==
    /\ call[c] # NoTool
    /\ call' = [call EXCEPT ![c] = NoTool]
    /\ counted' = [counted EXCEPT ![Status(how)] = @ + 1]
    /\ UNCHANGED <<gates, begun, audit>>

=============================================================================
