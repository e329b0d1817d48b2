\* One account, a password change next to a change of the profile.
SPECIFICATION Spec
CONSTANTS
    Account = {a1}
    Password = {p1, p2}
    GoogleId = {g1}
    Name = {n1}
    Request = {r1, r2}
    NoPassword = NoPassword
    NoGoogle = NoGoogle
    NoRow = NoRow
    NoAccount = NoAccount
SYMMETRY Symmetry
INVARIANT NewPasswordStands
