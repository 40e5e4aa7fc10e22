------------------------------- MODULE Rules -------------------------------
(***************************************************************************)
(* From a window to the policy it is managed under: the first matching     *)
(* rule, the profile the rule names, the defaults (config/matching.rs,     *)
(* config/mod.rs), and the verdict of the built-in deny-list that outranks *)
(* them all (system/protection.rs).  Names are compared without regard to  *)
(* case, so a name is a model value here; a regular expression is the set  *)
(* of values it matches.                                                   *)
(***************************************************************************)
EXTENDS Naturals, Sequences

CONSTANTS
    None,       \* an absent value: Rust's Option::None, or an empty string
    Denied      \* the names BUILTIN_DENY matches

Actions == {"ignore", "throttle", "freeze"}

\* MatchContext::from.  The desktop file is looked up by the executable.
MatchContext(window) ==
    [executable |-> window.executable, wm_class |-> window.wm_class,
     app_id |-> window.app_id]

\* AND across the fields a rule constrains, OR within the values of one.
MatchesRule(rule, ctx) ==
    \A field \in DOMAIN rule.match : ctx[field] \in rule.match[field]

\* What a rule leaves open its profile settles, and else the defaults do.  A
\* profile that does not exist settles nothing.
ResolvePolicy(config, policy) ==
    LET profile(s) == IF policy.use_profile \in DOMAIN config.profiles
                      THEN config.profiles[policy.use_profile][s] ELSE None
        FirstOf(x, y, z) == IF x # None THEN x ELSE IF y # None THEN y ELSE z
    IN  [s \in DOMAIN config.defaults |->
           FirstOf(policy[s], profile(s), config.defaults[s])]

DefaultPolicy(config) == config.defaults

\* The first rule that matches wins.
MatchWindow(config, ctx) ==
    LET matching == {i \in DOMAIN config.rules :
                       MatchesRule(config.rules[i], ctx)}
        first    == CHOOSE i \in matching : \A j \in matching : i <= j
    IN  IF matching = {} THEN DefaultPolicy(config)
        ELSE ResolvePolicy(config, config.rules[first].policy)

\* A pattern of BUILTIN_DENY matches the name, with or without what a wrapper
\* script adds to it.
MatchesDenyList(name) == name \in Denied

\* ProtectionPolicy::check, with what the kernel calls the process as `comm'.
Check(exe, comm) ==
    LET name == IF exe # None THEN exe ELSE comm
    IN  name = None \/ MatchesDenyList(name)

\* Mutant: a window without a PID is taken at its word.
VerdictWithoutPid(window, comm) == Check(window.executable, comm) /\ window.pid # None

\* A window without a PID is protected, whatever else is known of it.
ProtectionVerdict(window, comm) ==
    window.pid = None \/ Check(window.executable, comm)

\* What register_new_app and rematch_tracked_apps make of the two: protection
\* forces `ignore' at the moment the policy is resolved.
PolicyFor(config, window, comm) ==
    LET policy == MatchWindow(config, MatchContext(window))
    IN  IF ProtectionVerdict(window, comm)
        THEN [policy EXCEPT !.action = "ignore"] ELSE policy
=============================================================================
