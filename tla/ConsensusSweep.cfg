SPECIFICATION Spec
CONSTANTS
    n1 = n1  n2 = n2  v1 = v1  v2 = v2  p = p  q = q
    None = None
    Name = {n1, n2}
    Value = {v1, v2}
    Request = {p, q}
    DeleteAlone = TRUE
    Obj = {1, 2, 3, 4, 5, 6}
    ExpiresEarly = FALSE
    OneValue = TRUE
SYMMETRY Interchangeable
INVARIANTS TallyExact 
