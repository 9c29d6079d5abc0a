-------------------------------- MODULE MCAccess --------------------------------
EXTENDS Access, TLC
CONSTANTS u1, u2, i1, i2, q1, q2, o1, a1, a2, e1, v1, v2, r1, none
MCCovers == [e \in Entry |-> a1]
MCSymmetry == Permutations(User) \cup Permutations(SignIn) \cup Permutations(AdminCall)
MCAnswers == {
  {}, {[form |-> "v4", n |-> 2]}, {[form |-> "mapped", n |-> 2]},
  {[form |-> "v4", n |-> 0], [form |-> "v4", n |-> 2]},
  {[form |-> "v4", n |-> 2], [form |-> "v6", n |-> 3]}, {[form |-> "mapped", n |-> 0]},
  {[form |-> "6to4", n |-> 0]}, {[form |-> "6to4", n |-> 2]}, {[form |-> "v6", n |-> 3]}}
MCPattern == {
  [type |-> "HOST_SUFFIX", coversHost |-> TRUE], [type |-> "HOST_SUFFIX", coversHost |-> FALSE],
  [type |-> "CIDR", base |-> [form |-> "mapped", n |-> 3], bits |-> 1],
  [type |-> "CIDR", base |-> [form |-> "mapped", n |-> 3], bits |-> 3],
  [type |-> "IP_RANGE", from |-> [form |-> "v6", n |-> 3], to |-> [form |-> "6to4", n |-> 1]],
  [type |-> "REGEX"]}
MCRefused == {[family |-> f, value |-> 0] : f \in {4, 6}}
=============================================================================
