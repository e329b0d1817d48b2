\* Two accounts, two Google ids, two passwords, two overlapping requests.
SPECIFICATION Spec
CONSTANTS
    Account = {a1, a2}
    Password = {p1, p2}
    GoogleId = {g1, g2}
    Name = {n1, n2}
    Request = {r1, r2}
    NoPassword = NoPassword
    NoGoogle = NoGoogle
    NoRow = NoRow
    NoAccount = NoAccount
SYMMETRY Symmetry
INVARIANTS ChangesKept WayIn GoogleIdentifiesOne
