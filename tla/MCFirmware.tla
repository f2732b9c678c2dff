----------------------------- MODULE MCFirmware -----------------------------
(* Two servers that share a device, one form for an address that is not     *)
(* allowed, and four sites: one in a private network, one that redirects to *)
(* it, one that redirects for ever and one that declares no length.         *)
EXTENDS Firmware, TLC

CONSTANTS r1, r2
Symmetry == Permutations({r1, r2})

MCFleet == [a \in Acs |-> IF a = "acs1" THEN {"d1", "d2"} ELSE {"d2"}]
MCModel == [d \in Devices |-> d]
MCResolves ==
  [u \in Acs \cup Urls \cup {"elsewhere"} |->
     IF u \in {"acs1", "acs2", "private"} THEN {"lan"} ELSE {"wan"}]
MCSite ==
  [u \in Urls |->
     CASE u = "moved" -> [kind |-> "redirect", to |-> "file"]
       [] u = "inside" -> [kind |-> "redirect", to |-> "private"]
       [] u = "loop" -> [kind |-> "redirect", to |-> "loop"]
       [] u = "stream" -> [kind |-> "body", declared |-> None, blocks |-> 3]
       [] OTHER -> [kind |-> "body", declared |-> 2, blocks |-> 2]]

MCStored == {File("config", 1, None, {})}

Push(tagged, model, all) ==
  [op |-> "push", name |-> "f", user |-> Admin, tag |-> tagged, model |-> model, ids |-> {}, all |-> all]
MCAsks ==
  {[op |-> "upload", name |-> "f", type |-> t, size |-> 1] : t \in {"firmware", "config"}}
  \cup {[op |-> "upload", name |-> "f", type |-> "other", size |-> n] : n \in {0, 3}}
  \cup {[op |-> "url", name |-> "f", type |-> "firmware", url |-> u] : u \in {"moved", "inside", "loop", "stream"}}
  \cup {[op |-> "single", name |-> "f", user |-> "isp1", device |-> "d2"]}
  \cup {Push(None, None, TRUE), Push("isp1", None, FALSE), Push(None, "d1", FALSE), Push(None, None, FALSE)}
  \cup {[op |-> "read", user |-> "isp1", tag |-> "isp2", model |-> None, ids |-> {}, all |-> FALSE],
        [op |-> "read", user |-> Admin, tag |-> None, model |-> None, ids |-> {"d1"}, all |-> FALSE]}
MCNewSettings ==
  {[nbi |-> "acs2", cr |-> None], [nbi |-> "elsewhere", cr |-> TRUE], [nbi |-> None, cr |-> FALSE]}
=============================================================================
