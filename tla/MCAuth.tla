------------------------------- MODULE MCAuth -------------------------------
EXTENDS AuthSession

\* The pair a CLI login at tick 1 hands out.
LoggedIn == {[typ |-> "cli", id |-> 1, fam |-> 1, user |-> 1, exp |-> 1 + AccessTTL],
             [typ |-> "refresh", id |-> 2, fam |-> 1, user |-> 1, exp |-> 1 + RefreshTTL]}

Scene(kinds, held, store, most, failures) ==
    [kinds |-> kinds, held |-> held, store |-> store, most |-> most, failures |-> failures]

Scenes ==
    {Scene({"refresh", "revoke"}, LoggedIn, "sql", 4, 0),
     Scene({"refresh", "logout", "access"}, LoggedIn, "sql", 6, 0),
     Scene({"revoke", "access"}, LoggedIn, "sql", 2, 1),
     Scene({"login", "logout", "access"}, {}, "sql", 3, 0),
     Scene({"device"}, {}, "sql", 4, 1), Scene({"device"}, {}, "badger", 4, 1),
     Scene({"log", "admin"}, {}, "sql", 2, 1)}
=============================================================================
