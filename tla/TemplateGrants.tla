---------------------------- MODULE TemplateGrants ----------------------------
(***************************************************************************)
(* What RoleBindingTemplates promise while nothing disturbs the operator:  *)
(* a ledger of namespaces for each template, in which a binding is entered *)
(* as it is made, from what the template says at that moment, and out of   *)
(* which it is struck as it is taken away. Bindings of namespaces outside  *)
(* of the ledger are not touched, and a template goes with an empty ledger *)
(* only. Even when something disturbs the operator, no binding is anything *)
(* but the whole of what some version of a template says.                  *)
(***************************************************************************)
CONSTANTS
  Templates, Namespaces, Names,
  Specs,     \* with the name of their bindings
  Content,   \* the binding a spec makes in a namespace
  NoBinding

VARIABLES
  phase, spec,  \* of each template
  ledger,       \* the namespaces of each template
  grants,       \* the bindings of each namespace, by name
  settled       \* nothing has disturbed the operator so far

vars == <<phase, spec, ledger, grants, settled>>

Init ==
  /\ phase \in [Templates -> {"absent", "live"}]
  /\ spec \in [Templates -> Specs]
  /\ ledger = [t \in Templates |-> {}]
  /\ grants = [n \in Namespaces |-> [nm \in Names |-> NoBinding]]
  /\ settled = TRUE

Is(t, p) == phase' = [phase EXCEPT ![t] = p]
Enter(t, n) == ledger' = [ledger EXCEPT ![t] = @ \cup {n}]
Strike(t, n) == ledger' = [ledger EXCEPT ![t] = @ \ {n}]
Has(t, n) == grants[n][spec[t].name]
Put(t, n, b) == grants' = [grants EXCEPT ![n][spec[t].name] = b]

(* Users. *)

Create(t) ==
  /\ phase[t] = "absent" /\ Is(t, "live")
  /\ \E s \in Specs : spec' = [spec EXCEPT ![t] = s]
  /\ UNCHANGED <<ledger, grants>>

Revise(t) ==
  /\ phase[t] # "absent"
  /\ \E s \in Specs : s.name = spec[t].name /\ spec' = [spec EXCEPT ![t] = s]
  /\ UNCHANGED <<phase, ledger, grants>>

\* A template the operator has not taken up goes at once.
Delete(t) ==
  /\ phase[t] = "live"
  /\ Is(t, "deleting") \/ (ledger[t] = {} /\ Is(t, "absent"))
  /\ UNCHANGED <<spec, ledger, grants>>

LoseBinding(n) ==
  /\ \/ \E nm \in Names : grants' = [grants EXCEPT ![n][nm] = NoBinding]
     \/ grants' = [grants EXCEPT ![n] = [nm \in Names |-> NoBinding]]
  /\ UNCHANGED <<phase, spec, ledger>>

(* The operator. *)

Grant(t, n) ==
  /\ phase[t] = "live" /\ Content[spec[t]][n].subjects # {}
  /\ Put(t, n, Content[spec[t]][n])
  /\ Enter(t, n)
  /\ UNCHANGED <<phase, spec>>

\* A binding that is there and names the subjects is entered as it is.
Confirm(t, n) ==
  /\ phase[t] = "live"
  /\ Has(t, n) # NoBinding /\ Has(t, n).subjects = Content[spec[t]][n].subjects
  /\ Enter(t, n)
  /\ UNCHANGED <<phase, spec, grants>>

Revoke(t, n) ==
  /\ n \in ledger[t]
  /\ Put(t, n, NoBinding)
  /\ Strike(t, n)
  /\ UNCHANGED <<phase, spec>>

LetGo(t) ==
  /\ phase[t] = "deleting" /\ ledger[t] = {}
  /\ Is(t, "absent")
  /\ UNCHANGED <<spec, ledger, grants>>

Whole ==
  \A n \in Namespaces, nm \in Names :
    grants[n][nm] # NoBinding =>
      \E s \in Specs : s.name = nm /\ grants[n][nm] = Content[s][n]

Disturbed == settled' = FALSE /\ Whole'

Settled ==
  /\ settled /\ settled'
  /\ \/ \E t \in Templates :
          \/ Create(t) \/ Revise(t) \/ Delete(t) \/ LetGo(t)
          \/ \E n \in Namespaces : Grant(t, n) \/ Confirm(t, n) \/ Revoke(t, n)
     \/ \E n \in Namespaces : LoseBinding(n)

Next == Settled \/ Disturbed

Spec == Init /\ [][Next]_vars

-----------------------------------------------------------------------------
\* A binding is in the ledger of a template whose bindings have its name.
Accounted ==
  settled =>
    \A n \in Namespaces, nm \in Names :
      grants[n][nm] # NoBinding =>
        \E t \in Templates :
          phase[t] # "absent" /\ spec[t].name = nm /\ n \in ledger[t]
=============================================================================
